---- MODULE Spec2Model ----
(***************************************************************************)
(* Call signaling of teamsync: the start-call handler and the calls table, *)
(* the signaling coordinator (registry of connections per call, forward,   *)
(* teardown, delivery loop) of backend/api/calls.go, and the client's call *)
(* session logic of the frontend call context.                             *)
(***************************************************************************)
EXTENDS Integers, Sequences, FiniteSets, TLC

----------------------------------------------------------------------------
(* Bounds of the model *)

\* start-call requests handled over a run
MaxStartReqs == 2
\* signaling connections opened over a run of SpecRegistry; SpecThird
\* opens one more
MaxConns == 2
\* frames read from all signaling transports over a run
MaxFrames == 1
\* capacity of a connection's send channel (the code's is 256)
SendCap == 1

StartReqs == 1..MaxStartReqs
Conns == 1..(MaxConns + 1)
RegistryConns == 1..MaxConns
\* the two connections of a two-party call
PairConns == {1, 2}
\* the same and a connection more
TrioConns == {1, 2, 3}
\* call rows and message rows are only created by start-call
CallIDs == 1..MaxStartReqs
NoCall == 0

----------------------------------------------------------------------------
(* The rows the handlers read but never write: users, conversations,       *)
(* participants, tokens                                                    *)

Users == {1, 2, 3}
Conversations == {1, 2}
\* a conversation id with no row
NoConversation == 0

\* conversations.type
ConvType(cv) == IF cv = 1 THEN "dm" ELSE "group"

\* GetConversationParticipants: the ids of the users joined to cv
GetConversationParticipants(cv) == IF cv = 1 THEN {1, 2} ELSE {1, 2, 3}

\* oauth_tokens rows: access_token -> user_id and whether the access token
\* has passed access_token_expires_at
Tokens == {"t1", "t2", "t3", "t1old"}
TokenUser(t) == CASE t = "t1" -> 1 [] t = "t2" -> 2 [] t = "t3" -> 3 [] OTHER -> 1
TokenExpired(t) == t = "t1old"
\* what a client may present: a stored token, an unknown one, or none
PresentedTokens == Tokens \cup {"unknown", ""}

----------------------------------------------------------------------------
VARIABLES
  lastMessageSeq,   \* conversations.last_message_seq, per conversation
  messages,         \* the messages table: a sequence of rows, id = index
  calls,            \* the calls table: a sequence of rows, id = index
  endCallCount,     \* per call id: how often EndCall's UPDATE has run
  startReq,         \* per start-call request: its position and locals
  callConnections,  \* the registry: call id -> sequence of connections
  connPc,           \* per connection: position of handleCallSignaling/readPump
  connUser,         \* callConnection.userID
  connCall,         \* the call.ID the handler holds
  connOpen,         \* the transport is open (neither side has closed it)
  send,             \* callConnection.send: the buffered channel's content
  sendClosed,       \* how often close(conn.send) has run on the channel
  writePc,          \* position of the connection's writePump goroutine
  others,           \* otherConnections of a teardown in progress
  readMsg,          \* the callSignalMessage the read loop holds
  written,          \* the frames WriteJSON has put on the transport
  framesRead,       \* frames read so far over all transports
  closedBy,         \* who closed the transport first
  peerJoinedSent,   \* per connection: peer-joined messages enqueued to it
  dropped,          \* per connection: messages dropped at its full channel
  client,           \* one client's call session: the state of connectWebSocket
  statusResp,       \* the response of the last call-status request
  callMutex,        \* callMutex: the connection whose handler holds the
                    \* write lock (or 0) and those that hold the read lock
  relay,            \* the relay server: token rows, clock, last authentication
  peers             \* the two clients of an established call: signaling
                    \* state, screen sharing, handlers, messages in flight

dbVars == <<lastMessageSeq, messages, calls, endCallCount>>
connVars == <<callConnections, connPc, connUser, connCall, connOpen, send,
              sendClosed, writePc, others, readMsg, written, framesRead,
              closedBy, peerJoinedSent, dropped>>
vars == <<dbVars, startReq, connVars, client, statusResp, relay, callMutex,
          peers>>
\* what the start-call and signaling handlers leave alone
restVars == <<client, statusResp, relay, callMutex, peers>>
serverVars == <<dbVars, startReq, connVars>>
\* what the client's handlers leave alone
nonClientVars == <<serverVars, statusResp, relay, callMutex, peers>>

----------------------------------------------------------------------------
(* callMutex, the lock of the registry *)

\* sync.RWMutex, its zero value: no writer (0 is no connection), no reader
Unlocked == [writer |-> 0, readers |-> {}]

\* Lock() returns: no handler holds the lock in either mode
CanLock == callMutex = Unlocked

\* RLock() returns: no handler holds the write lock
CanRLock == callMutex.writer = 0

\* the handler of connection c holds the lock
Holds(c) == callMutex.writer = c \/ c \in callMutex.readers

----------------------------------------------------------------------------
(* The calls queries *)

\* GetCallByMessageID: the rows with message_id = m AND deleted_at IS NULL
GetCallByMessageID(m) ==
  {i \in 1..Len(calls) : calls[i].messageID = m /\ ~calls[i].deleted}

\* GetActiveCallByConversation: rows with conversation_id = cv AND
\* deleted_at IS NULL
GetActiveCallByConversation(cv) ==
  {i \in 1..Len(calls) : calls[i].conversationID = cv /\ ~calls[i].deleted}

\* EndCall with no WHERE clause: every call row is marked
EndCallEvery(k) ==
  /\ calls' = [i \in 1..Len(calls) |->
                 [calls[i] EXCEPT !.ended = TRUE, !.deleted = TRUE]]
  /\ endCallCount' = [endCallCount EXCEPT ![k] = @ + 1]

\* EndCall that sets ended_at and leaves deleted_at NULL
EndCallEndedOnly(k) ==
  /\ calls' = [i \in 1..Len(calls) |->
                 IF i = k THEN [calls[i] EXCEPT !.ended = TRUE] ELSE calls[i]]
  /\ endCallCount' = [endCallCount EXCEPT ![k] = @ + 1]

\* EndCall: UPDATE calls SET ended_at = now, deleted_at = now WHERE id = k
EndCall(k) ==
  /\ calls' = [i \in 1..Len(calls) |->
                 IF i = k THEN [calls[i] EXCEPT !.ended = TRUE, !.deleted = TRUE]
                 ELSE calls[i]]
  /\ endCallCount' = [endCallCount EXCEPT ![k] = @ + 1]

----------------------------------------------------------------------------
(* handleStartCall *)

\* the checks before the transaction: the status the request is rejected
\* with, or 0 when it passes all of them
StartCallRejection(u, cv) ==
  IF cv \notin Conversations THEN 404
  ELSE IF ConvType(cv) # "dm" THEN 400
  ELSE IF u \notin GetConversationParticipants(cv) THEN 403
  ELSE IF GetActiveCallByConversation(cv) # {} THEN 409
  ELSE 0

\* StartCallCheck with UpdateConversationSeq run ahead of the checks
StartCallCheckSeqFirst(r) ==
  /\ startReq[r].pc = "new"
  /\ IF r = 1 THEN TRUE ELSE startReq[r - 1].pc # "new"
  /\ \E u \in Users, cv \in Conversations :
       LET st == StartCallRejection(u, cv) IN
       /\ startReq' = [startReq EXCEPT ![r] =
                      IF st = 0
                      THEN [@ EXCEPT !.pc = "tx", !.user = u, !.conv = cv]
                      ELSE [@ EXCEPT !.pc = "done", !.status = st]]
       /\ lastMessageSeq' = [lastMessageSeq EXCEPT ![cv] = @ + 1]
  /\ UNCHANGED restVars
  /\ UNCHANGED <<messages, calls, endCallCount, connVars>>

\* lines 70-106: lookups and rejections; a request that passes goes on to
\* the transaction
StartCallCheck(r) ==
  /\ startReq[r].pc = "new"
  /\ IF r = 1 THEN TRUE ELSE startReq[r - 1].pc # "new"
  /\ \E u \in Users, cv \in Conversations \cup {NoConversation} :
       LET st == StartCallRejection(u, cv) IN
       startReq' = [startReq EXCEPT ![r] =
                      IF st = 0
                      THEN [@ EXCEPT !.pc = "tx", !.user = u, !.conv = cv]
                      ELSE [@ EXCEPT !.pc = "done", !.status = st]]
  /\ UNCHANGED restVars
  /\ UNCHANGED <<dbVars, connVars>>

\* StartCallCommit with a CreateCall that also clears ended_at and
\* deleted_at of the conversation's earlier call rows
StartCallCommitClearing(r) ==
  /\ startReq[r].pc = "tx"
  /\ LET cv == startReq[r].conv
         seq == lastMessageSeq[cv] + 1
         mid == Len(messages) + 1
         cid == Len(calls) + 1
         cleared == [i \in 1..Len(calls) |->
                       IF calls[i].conversationID = cv
                       THEN [calls[i] EXCEPT !.ended = FALSE, !.deleted = FALSE]
                       ELSE calls[i]]
     IN
     /\ lastMessageSeq' = [lastMessageSeq EXCEPT ![cv] = seq]
     /\ messages' = Append(messages,
                      [id |-> mid, conversationID |-> cv, seq |-> seq,
                       senderID |-> startReq[r].user,
                       contentType |-> "application/call"])
     /\ calls' = Append(cleared,
                      [id |-> cid, conversationID |-> cv, messageID |-> mid,
                       ended |-> FALSE, deleted |-> FALSE])
     /\ startReq' = [startReq EXCEPT ![r].pc = "done", ![r].status = 200,
                                     ![r].callID = cid, ![r].messageID = mid]
  /\ UNCHANGED restVars
  /\ UNCHANGED <<endCallCount, connVars>>

\* lines 108-141: UpdateConversationSeq, CreateMessage, CreateCall, Commit
StartCallCommit(r) ==
  /\ startReq[r].pc = "tx"
  /\ LET cv == startReq[r].conv
         seq == lastMessageSeq[cv] + 1
         mid == Len(messages) + 1
         cid == Len(calls) + 1
     IN
     /\ lastMessageSeq' = [lastMessageSeq EXCEPT ![cv] = seq]
     /\ messages' = Append(messages,
                      [id |-> mid, conversationID |-> cv, seq |-> seq,
                       senderID |-> startReq[r].user,
                       contentType |-> "application/call"])
     /\ calls' = Append(calls,
                      [id |-> cid, conversationID |-> cv, messageID |-> mid,
                       ended |-> FALSE, deleted |-> FALSE])
     /\ startReq' = [startReq EXCEPT ![r].pc = "done", ![r].status = 200,
                                     ![r].callID = cid, ![r].messageID = mid]
  /\ UNCHANGED restVars
  /\ UNCHANGED <<endCallCount, connVars>>

\* StartCallTxFail with no transaction around the statements: CreateCall
\* fails and what UpdateConversationSeq and CreateMessage wrote stays
StartCallTxFailNoRollback(r) ==
  /\ startReq[r].pc = "tx"
  /\ LET cv == startReq[r].conv
         seq == lastMessageSeq[cv] + 1
         mid == Len(messages) + 1
     IN
     /\ lastMessageSeq' = [lastMessageSeq EXCEPT ![cv] = seq]
     /\ messages' = Append(messages,
                      [id |-> mid, conversationID |-> cv, seq |-> seq,
                       senderID |-> startReq[r].user,
                       contentType |-> "application/call"])
  /\ startReq' = [startReq EXCEPT ![r].pc = "done", ![r].status = 500]
  /\ UNCHANGED restVars
  /\ UNCHANGED <<calls, endCallCount, connVars>>

\* a statement of the transaction or its commit fails: the deferred
\* Rollback undoes what the transaction wrote
StartCallTxFail(r) ==
  /\ startReq[r].pc = "tx"
  /\ startReq' = [startReq EXCEPT ![r].pc = "done", ![r].status = 500]
  /\ UNCHANGED restVars
  /\ UNCHANGED <<dbVars, connVars>>

----------------------------------------------------------------------------
(* Signal messages *)

NoPayload == <<>>

\* the frames a client puts on its transport: JSON texts {type, payload},
\* the payload given by its bytes
Frames ==
  { [type |-> "offer", payload |-> <<"\"", "v", "\"">>],
    [type |-> "ice-candidate", payload |-> <<"\"", "<", "\"">>] }

\* a channel element that no client frame stands behind
NoFrame == [type |-> "", payload |-> NoPayload]

\* ReadJSON into callSignalMessage: Type is the "type" member, Payload the
\* raw bytes of the "payload" member
ReadJSON(f) == [Type |-> f.type, Payload |-> f.payload]

\* encoding/json's compaction of a RawMessage on output, with the encoder's
\* HTML escaping: the bytes <, > and & are written as \u003c, \u003e and
\* \u0026
RECURSIVE AppendCompact(_)
AppendCompact(b) ==
  IF b = <<>> THEN <<>>
  ELSE LET c == Head(b)
           out == CASE c = "<" -> <<"\\", "u", "0", "0", "3", "c">>
                    [] c = ">" -> <<"\\", "u", "0", "0", "3", "e">>
                    [] c = "&" -> <<"\\", "u", "0", "0", "2", "6">>
                    [] OTHER -> <<c>>
       IN out \o AppendCompact(Tail(b))

\* WriteJSON of a callSignalMessage: "type", and "payload" unless it is
\* empty (omitempty)
WriteJSON(m) ==
  [type |-> m.Type,
   payload |-> IF Len(m.Payload) = 0 THEN NoPayload ELSE AppendCompact(m.Payload)]

\* callSignalMessage{Type: "peer-joined"}
PeerJoined == [Type |-> "peer-joined", Payload |-> NoPayload]

\* var msg callSignalMessage, before ReadJSON has filled it
NoMsg == [msg |-> [Type |-> "", Payload |-> NoPayload], from |-> NoFrame]

\* TrySend into a channel without a capacity
TrySendUnbounded(ch, e) == Append(ch, e)

\* select { case ch <- m: default: }: the channel after a non-blocking send
\* of element e
TrySend(ch, e) == IF Len(ch) < SendCap THEN Append(ch, e) ELSE ch

\* the elements of a sequence
Range(q) == {q[i] : i \in 1..Len(q)}

----------------------------------------------------------------------------
(* handleCallSignaling *)

\* SignalingRejection without the participant test of lines 233-244
SignalingRejectionAnyUser(t, m) ==
  IF t = "" THEN 401
  ELSE IF t \notin Tokens THEN 401
  ELSE IF TokenExpired(t) THEN 401
  ELSE IF GetCallByMessageID(m) = {} THEN 404
  ELSE 0

\* lines 177-244: the status the request is rejected with before the
\* upgrade, or 0
SignalingRejection(t, m) ==
  IF t = "" THEN 401
  ELSE IF t \notin Tokens THEN 401
  ELSE IF TokenExpired(t) THEN 401
  ELSE IF GetCallByMessageID(m) = {} THEN 404
  ELSE LET k == CHOOSE i \in GetCallByMessageID(m) : TRUE IN
       IF TokenUser(t) \notin GetConversationParticipants(calls[k].conversationID)
       THEN 403 ELSE 0

\* lines 177-256: the checks, the upgrade, the new callConnection
SignalingAccept(c) ==
  /\ connPc[c] = "new"
  /\ IF c = 1 THEN TRUE ELSE connPc[c - 1] # "new"
  /\ \E t \in PresentedTokens, m \in 0..MaxStartReqs :
       LET st == SignalingRejection(t, m) IN
       IF st # 0
       THEN /\ connPc' = [connPc EXCEPT ![c] = "rejected"]
            /\ UNCHANGED <<connUser, connCall, connOpen>>
       ELSE /\ connPc' = [connPc EXCEPT ![c] = "upgraded"]
            /\ connUser' = [connUser EXCEPT ![c] = TokenUser(t)]
            /\ connCall' = [connCall EXCEPT ![c] =
                              CHOOSE i \in GetCallByMessageID(m) : TRUE]
            /\ connOpen' = [connOpen EXCEPT ![c] = TRUE]
  /\ UNCHANGED restVars
  /\ UNCHANGED <<dbVars, startReq, callConnections, send, sendClosed, writePc,
                 others, readMsg, written, framesRead, closedBy, peerJoinedSent, dropped>>

\* the registry after lines 259-260
Registered(c) ==
  [callConnections EXCEPT ![connCall[c]] = Append(@, c)]

\* Announced with peer-joined for the registering connection alone
AnnouncedNewcomerOnly(c) ==
  LET connections == Registered(c)[connCall[c]] IN
  IF Len(connections) = 2 THEN {c} ELSE {}

\* Announced with the test len(connections) >= 1
AnnouncedFromOne(c) ==
  LET connections == Registered(c)[connCall[c]] IN
  IF Len(connections) >= 1 THEN Range(connections) ELSE {}

\* the connections peer-joined is sent to at lines 263-272
Announced(c) ==
  LET connections == Registered(c)[connCall[c]] IN
  IF Len(connections) = 2 THEN Range(connections) ELSE {}

\* lines 259-272: append to the registry and announce peer-joined
RegisterLocked(c) ==
  /\ callConnections' = Registered(c)
  /\ send' = [d \in Conns |->
                IF d \in Announced(c)
                THEN TrySend(send[d], [msg |-> PeerJoined, from |-> NoFrame])
                ELSE send[d]]
  /\ peerJoinedSent' = [d \in Conns |->
                IF d \in Announced(c) /\ Len(send[d]) < SendCap
                THEN peerJoinedSent[d] + 1 ELSE peerJoinedSent[d]]
  /\ UNCHANGED <<dbVars, startReq, connUser, connCall, connOpen, sendClosed,
                 others, readMsg, written, framesRead, closedBy, dropped>>

\* lines 258-275: under the lock append to the registry and announce
\* peer-joined; then start writePump and enter readPump
Register(c) ==
  /\ connPc[c] = "upgraded"
  /\ RegisterLocked(c)
  /\ connPc' = [connPc EXCEPT ![c] = "reading"]
  /\ writePc' = [writePc EXCEPT ![c] = "running"]
  /\ UNCHANGED restVars

----------------------------------------------------------------------------
(* readPump *)

\* line 311: ReadJSON returns one of the frames the client may have sent
\* next, of at most limit frames in all
ReadFrameOf(c, limit, frames) ==
  /\ connPc[c] = "reading"
  /\ connOpen[c]
  /\ framesRead < limit
  /\ \E f \in frames :
       readMsg' = [readMsg EXCEPT ![c] = [msg |-> ReadJSON(f), from |-> f]]
  /\ framesRead' = framesRead + 1
  /\ connPc' = [connPc EXCEPT ![c] = "forward"]
  /\ UNCHANGED restVars
  /\ UNCHANGED <<dbVars, startReq, callConnections, connUser, connCall,
                 connOpen, send, sendClosed, writePc, others, written,
                 closedBy, peerJoinedSent, dropped>>

\* line 311: ReadJSON returns a frame
ReadFrame(c) == ReadFrameOf(c, MaxFrames, Frames)

\* the frames one client sends, in the order it sends them
SubmittedFrames ==
  << [type |-> "offer", payload |-> <<"\"", "v", "\"">>],
     [type |-> "ice-candidate", payload |-> <<"\"", "<", "\"">>] >>

\* the frame that client has sent after those already read
NextSubmitted ==
  IF framesRead < Len(SubmittedFrames)
  THEN {SubmittedFrames[framesRead + 1]} ELSE {}

\* line 311 on the connection of that client
ReadSubmitted(c) == ReadFrameOf(c, Len(SubmittedFrames), NextSubmitted)

\* ForwardTargets without the test of line 320
ForwardTargetsAll(c) == Range(callConnections[connCall[c]])

\* the connections the loop of lines 319-328 sends to
ForwardTargets(c) ==
  {d \in Range(callConnections[connCall[c]]) : connUser[d] # connUser[c]}

\* lines 319-328: a non-blocking send to each target
ForwardLocked(c) ==
  /\ send' = [d \in Conns |->
                IF d \in ForwardTargets(c) THEN TrySend(send[d], readMsg[c])
                ELSE send[d]]
  /\ dropped' = [d \in Conns |->
                   IF d \in ForwardTargets(c) /\ Len(send[d]) >= SendCap
                   THEN dropped[d] + 1 ELSE dropped[d]]
  /\ UNCHANGED <<dbVars, startReq, callConnections, connUser, connCall,
                 connOpen, sendClosed, writePc, others, written,
                 framesRead, closedBy, peerJoinedSent>>

\* lines 318-329: under the read lock, a non-blocking send to each target
Forward(c) ==
  /\ connPc[c] = "forward"
  /\ ForwardLocked(c)
  /\ connPc' = [connPc EXCEPT ![c] = "reading"]
  /\ readMsg' = [readMsg EXCEPT ![c] = NoMsg]
  /\ UNCHANGED restVars

\* the client closes its transport
ClientClose(c) ==
  /\ connPc[c] = "reading"
  /\ connOpen[c]
  /\ connOpen' = [connOpen EXCEPT ![c] = FALSE]
  /\ closedBy' = [closedBy EXCEPT ![c] = "client"]
  /\ UNCHANGED restVars
  /\ UNCHANGED <<dbVars, startReq, callConnections, connPc, connUser, connCall,
                 send, sendClosed, writePc, others, readMsg, written,
                 framesRead, peerJoinedSent, dropped>>

\* lines 311-314 and 282: ReadJSON fails on a closed transport; the loop
\* breaks and the deferred teardown starts with c.conn.Close()
ReadError(c) ==
  /\ connPc[c] = "reading"
  /\ ~connOpen[c]
  /\ connPc' = [connPc EXCEPT ![c] = "teardown"]
  /\ UNCHANGED restVars
  /\ UNCHANGED <<dbVars, startReq, callConnections, connUser, connCall,
                 connOpen, send, sendClosed, writePc, others, readMsg, written,
                 framesRead, closedBy, peerJoinedSent, dropped>>

\* lines 311-314 and 282: ReadJSON fails to decode a frame; the loop breaks
\* likewise and c.conn.Close() closes the transport
ReadMalformed(c) ==
  /\ connPc[c] = "reading"
  /\ connOpen[c]
  /\ framesRead < MaxFrames
  /\ framesRead' = framesRead + 1
  /\ connPc' = [connPc EXCEPT ![c] = "teardown"]
  /\ connOpen' = [connOpen EXCEPT ![c] = FALSE]
  /\ closedBy' = [closedBy EXCEPT ![c] = "malformed"]
  /\ UNCHANGED restVars
  /\ UNCHANGED <<dbVars, startReq, callConnections, connUser, connCall, send,
                 sendClosed, writePc, others, readMsg, written, peerJoinedSent, dropped>>

\* TeardownLocked without the delete of line 292
TeardownLockedKeep(c) ==
  /\ others' = [others EXCEPT ![c] =
                  Range(callConnections[connCall[c]]) \ {c}]
  /\ UNCHANGED callConnections
  /\ UNCHANGED <<dbVars, startReq, connUser, connCall, connOpen, send,
                 sendClosed, writePc, readMsg, written, framesRead, closedBy,
                 peerJoinedSent, dropped>>

\* TeardownLocked with the closing of the others (lines 297-301) ahead of
\* the Unlock
TeardownLockedClosing(c) ==
  /\ others' = [others EXCEPT ![c] =
                  Range(callConnections[connCall[c]]) \ {c}]
  /\ callConnections' = [callConnections EXCEPT ![connCall[c]] = <<>>]
  /\ sendClosed' = [d \in Conns |->
                      IF d \in Range(callConnections[connCall[c]]) \ {c}
                      THEN sendClosed[d] + 1 ELSE sendClosed[d]]
  /\ connOpen' = [d \in Conns |->
                    IF d \in Range(callConnections[connCall[c]]) \ {c}
                    THEN FALSE ELSE connOpen[d]]
  /\ UNCHANGED <<dbVars, startReq, connUser, connCall, send, writePc,
                 readMsg, written, framesRead, closedBy, peerJoinedSent,
                 dropped>>

\* lines 285-292: collect the other connections of the call and delete the
\* call's registry entry
TeardownLocked(c) ==
  /\ others' = [others EXCEPT ![c] =
                  Range(callConnections[connCall[c]]) \ {c}]
  /\ callConnections' = [callConnections EXCEPT ![connCall[c]] = <<>>]
  /\ UNCHANGED <<dbVars, startReq, connUser, connCall, connOpen, send,
                 sendClosed, writePc, readMsg, written, framesRead, closedBy,
                 peerJoinedSent, dropped>>

\* lines 284-293: under the lock collect the other connections of the call
\* and delete the call's registry entry
TeardownUnregister(c) ==
  /\ connPc[c] = "teardown"
  /\ TeardownLocked(c)
  /\ connPc' = [connPc EXCEPT ![c] = "closing"]
  /\ UNCHANGED restVars

\* TeardownCloseOthers without the loop of lines 297-301
TeardownSkipOthers(c) ==
  /\ connPc[c] = "closing"
  /\ EndCall(connCall[c])
  /\ others' = [others EXCEPT ![c] = {}]
  /\ connPc' = [connPc EXCEPT ![c] = "done"]
  /\ UNCHANGED restVars
  /\ UNCHANGED <<lastMessageSeq, messages, startReq, callConnections, connUser,
                 connCall, connOpen, send, sendClosed, writePc, readMsg,
                 written, framesRead, closedBy, peerJoinedSent, dropped>>

\* lines 295-306: close(conn.send) and conn.conn.Close() for each of them,
\* then EndCall
TeardownCloseOthers(c) ==
  /\ connPc[c] = "closing"
  /\ sendClosed' = [d \in Conns |->
                      IF d \in others[c] THEN sendClosed[d] + 1 ELSE sendClosed[d]]
  /\ connOpen' = [d \in Conns |-> IF d \in others[c] THEN FALSE ELSE connOpen[d]]
  /\ closedBy' = [d \in Conns |->
                    IF d \in others[c] /\ connOpen[d] THEN "coordinator"
                    ELSE closedBy[d]]
  /\ EndCall(connCall[c])
  /\ others' = [others EXCEPT ![c] = {}]
  /\ connPc' = [connPc EXCEPT ![c] = "done"]
  /\ UNCHANGED restVars
  /\ UNCHANGED <<lastMessageSeq, messages, startReq, callConnections, connUser,
                 connCall, send, writePc, readMsg, written, framesRead,
                 peerJoinedSent, dropped>>

----------------------------------------------------------------------------
(* The three critical sections step by step: the handler takes the lock    *)
(* and runs the section, and gives the lock back in a step of its own      *)

\* lines 258-272: callMutex.Lock() returns and the handler appends and
\* announces
LockRegister(c) ==
  /\ connPc[c] = "upgraded"
  /\ CanLock
  /\ RegisterLocked(c)
  /\ callMutex' = [callMutex EXCEPT !.writer = c]
  /\ connPc' = [connPc EXCEPT ![c] = "registered"]
  /\ UNCHANGED <<writePc, client, statusResp, relay, peers>>

\* lines 273-277: callMutex.Unlock(); then writePump starts and readPump
\* is entered
UnlockRegister(c) ==
  /\ connPc[c] = "registered"
  /\ callMutex' = Unlocked
  /\ connPc' = [connPc EXCEPT ![c] = "reading"]
  /\ writePc' = [writePc EXCEPT ![c] = "running"]
  /\ UNCHANGED <<dbVars, startReq, callConnections, connUser, connCall,
                 connOpen, send, sendClosed, others, readMsg, written,
                 framesRead, closedBy, peerJoinedSent, dropped>>
  /\ UNCHANGED <<client, statusResp, relay, peers>>

\* lines 318-328: callMutex.RLock() returns and the read loop offers its
\* message to the targets
RLockForward(c) ==
  /\ connPc[c] = "forward"
  /\ CanRLock
  /\ ForwardLocked(c)
  /\ callMutex' = [callMutex EXCEPT !.readers = @ \cup {c}]
  /\ connPc' = [connPc EXCEPT ![c] = "forwarded"]
  /\ readMsg' = [readMsg EXCEPT ![c] = NoMsg]
  /\ UNCHANGED <<client, statusResp, relay, peers>>

\* line 329: callMutex.RUnlock(); the loop is back at its read
RUnlockForward(c) ==
  /\ connPc[c] = "forwarded"
  /\ callMutex' = [callMutex EXCEPT !.readers = @ \ {c}]
  /\ connPc' = [connPc EXCEPT ![c] = "reading"]
  /\ UNCHANGED <<dbVars, startReq, callConnections, connUser, connCall,
                 connOpen, send, sendClosed, writePc, others, readMsg,
                 written, framesRead, closedBy, peerJoinedSent, dropped>>
  /\ UNCHANGED <<client, statusResp, relay, peers>>

\* lines 284-292: callMutex.Lock() returns and the teardown collects the
\* other connections and deletes the entry
LockTeardown(c) ==
  /\ connPc[c] = "teardown"
  /\ CanLock
  /\ TeardownLocked(c)
  /\ callMutex' = [callMutex EXCEPT !.writer = c]
  /\ connPc' = [connPc EXCEPT ![c] = "unregistered"]
  /\ UNCHANGED <<client, statusResp, relay, peers>>

\* line 293: callMutex.Unlock(); the closing of the others follows
UnlockTeardown(c) ==
  /\ connPc[c] = "unregistered"
  /\ callMutex' = Unlocked
  /\ connPc' = [connPc EXCEPT ![c] = "closing"]
  /\ UNCHANGED <<dbVars, startReq, callConnections, connUser, connCall,
                 connOpen, send, sendClosed, writePc, others, readMsg,
                 written, framesRead, closedBy, peerJoinedSent, dropped>>
  /\ UNCHANGED <<client, statusResp, relay, peers>>

----------------------------------------------------------------------------
(* writePump *)

\* WriteNext writing each message twice
WriteNextTwice(c) ==
  /\ writePc[c] = "running"
  /\ send[c] # <<>>
  /\ connOpen[c]
  /\ send' = [send EXCEPT ![c] = Tail(@)]
  /\ LET w == [frame |-> WriteJSON(Head(send[c]).msg),
               from |-> Head(send[c]).from]
     IN written' = [written EXCEPT ![c] = @ \o <<w, w>>]
  /\ UNCHANGED restVars
  /\ UNCHANGED <<dbVars, startReq, callConnections, connPc, connUser, connCall,
                 connOpen, sendClosed, writePc, others, readMsg,
                 framesRead, closedBy, peerJoinedSent, dropped>>

\* lines 334-339: take the next message off the channel and write it; a
\* write on a closed transport fails and ends the loop
WriteNext(c) ==
  /\ writePc[c] = "running"
  /\ send[c] # <<>>
  /\ send' = [send EXCEPT ![c] = Tail(@)]
  /\ IF connOpen[c]
     THEN /\ written' = [written EXCEPT ![c] =
                           Append(@, [frame |-> WriteJSON(Head(send[c]).msg),
                                      from |-> Head(send[c]).from])]
          /\ UNCHANGED writePc
     ELSE /\ writePc' = [writePc EXCEPT ![c] = "failed"]
          /\ UNCHANGED written
  /\ UNCHANGED restVars
  /\ UNCHANGED <<dbVars, startReq, callConnections, connPc, connUser, connCall,
                 connOpen, sendClosed, others, readMsg, framesRead, closedBy,
                 peerJoinedSent, dropped>>

\* line 335 on a transport that the client has closed and the server has
\* not yet: the write may still succeed locally, and the frame is lost
WriteLost(c) ==
  /\ writePc[c] = "running"
  /\ send[c] # <<>>
  /\ closedBy[c] = "client"
  /\ connPc[c] \in {"reading", "forward"}
  /\ send' = [send EXCEPT ![c] = Tail(@)]
  /\ UNCHANGED restVars
  /\ UNCHANGED <<dbVars, startReq, callConnections, connPc, connUser, connCall,
                 connOpen, sendClosed, writePc, others, readMsg, written,
                 framesRead, closedBy, peerJoinedSent, dropped>>

\* lines 335-338: WriteJSON returns an error while the read loop's ReadJSON
\* has not failed: the message is lost and writePump returns
WriteError(c) ==
  /\ writePc[c] = "running"
  /\ send[c] # <<>>
  /\ connOpen[c]
  /\ send' = [send EXCEPT ![c] = Tail(@)]
  /\ writePc' = [writePc EXCEPT ![c] = "failed"]
  /\ UNCHANGED restVars
  /\ UNCHANGED <<dbVars, startReq, callConnections, connPc, connUser, connCall,
                 connOpen, sendClosed, others, readMsg, written, framesRead,
                 closedBy, peerJoinedSent, dropped>>

\* line 334: the channel is closed and drained, the range loop ends
WriteDone(c) ==
  /\ writePc[c] = "running"
  /\ send[c] = <<>>
  /\ sendClosed[c] > 0
  /\ writePc' = [writePc EXCEPT ![c] = "exited"]
  /\ UNCHANGED restVars
  /\ UNCHANGED <<dbVars, startReq, callConnections, connPc, connUser, connCall,
                 connOpen, send, sendClosed, others, readMsg, written,
                 framesRead, closedBy, peerJoinedSent, dropped>>

----------------------------------------------------------------------------
(* handleCallStatus *)

\* a request with no authenticated user
NoUser == 0

\* no call-status request has been answered yet
NoResponse == [user |-> NoUser, messageID |-> 0, status |-> 0, active |-> FALSE]

\* lines 366-399: the status code and the Active member of the response to
\* user u's query for message id m
CallStatusResponse(u, m) ==
  IF u = NoUser THEN [status |-> 401, active |-> FALSE]
  ELSE IF GetCallByMessageID(m) = {} THEN [status |-> 200, active |-> FALSE]
  ELSE LET k == CHOOSE i \in GetCallByMessageID(m) : TRUE IN
       IF m \notin 1..Len(messages) THEN [status |-> 404, active |-> FALSE]
       ELSE IF u \notin GetConversationParticipants(messages[m].conversationID)
       THEN [status |-> 403, active |-> FALSE]
       ELSE [status |-> 200, active |-> ~calls[k].deleted]

\* lines 342-400: a call-status request is answered
CallStatus ==
  /\ \E u \in Users \cup {NoUser}, m \in 0..MaxStartReqs :
       LET resp == CallStatusResponse(u, m) IN
       statusResp' = [user |-> u, messageID |-> m, status |-> resp.status,
                      active |-> resp.active]
  /\ UNCHANGED <<serverVars, client, relay, callMutex, peers>>

----------------------------------------------------------------------------
(* The relay server's authentication: authHandler of NewServer, and the    *)
(* credential the client's loadIceServers derives. Strings are sequences   *)
(* of pieces.                                                              *)

\* the relay clock runs from 1 to MaxClock
MaxClock == 2

\* realm and usernamePrefix of NewServer: defaultRealm, defaultUsernamePrefix
Realm == <<"teamsync">>
UsernamePrefix == <<"teamsync", ":">>

\* the text of access token t
TokenText(t) == <<t>>

\* oauth_tokens.access_token_expires_at on the relay clock
TokenExpiresAt(t) ==
  CASE t = "t1old" -> 0 [] t = "t1" -> 1 [] OTHER -> MaxClock

\* HasPrefix that finds the prefix in every string
HasPrefixLoose(str, prefix) == TRUE

\* strings.HasPrefix
HasPrefix(str, prefix) ==
  /\ Len(str) >= Len(prefix)
  /\ SubSeq(str, 1, Len(prefix)) = prefix

\* strings.TrimPrefix
TrimPrefix(str, prefix) ==
  IF HasPrefix(str, prefix) THEN SubSeq(str, Len(prefix) + 1, Len(str))
  ELSE str

\* GenerateAuthKey with a digest of the realm alone
GenerateAuthKeyRealmOnly(username, realm, password) == realm

\* turn.GenerateAuthKey: MD5 of username ":" realm ":" password; the digest
\* is taken to be free of collisions and is given by its input
GenerateAuthKey(username, realm, password) ==
  username \o <<":">> \o realm \o <<":">> \o password

NoKey == <<>>

\* GetTokenByAccessToken: the rows with access_token = text
GetTokenByAccessToken(rows, text) == {t \in rows : TokenText(t) = text}

\* Expired that takes every token for current
ExpiredNever(t, now) == FALSE

\* line 177: time.Now().After(oauthToken.AccessTokenExpiresAt)
Expired(t, now) == now > TokenExpiresAt(t)

\* lines 147-184: the key and the verdict for (username, realmParam); lookup
\* is how the token query ends: "ok", "timeout" (the context's deadline
\* passes) or "error"
AuthHandlerWith(realm, usernamePrefix, rows, now, username, realmParam, lookup) ==
  LET reject == [ok |-> FALSE, key |-> NoKey]
      token == TrimPrefix(username, usernamePrefix)
  IN
  IF realmParam # realm THEN reject
  ELSE IF ~HasPrefix(username, usernamePrefix) THEN reject
  ELSE IF token = <<>> THEN reject
  ELSE IF lookup # "ok" THEN reject
  ELSE IF GetTokenByAccessToken(rows, token) = {} THEN reject
  ELSE LET oauthToken == CHOOSE t \in GetTokenByAccessToken(rows, token) : TRUE
       IN IF Expired(oauthToken, now) THEN reject
          ELSE [ok |-> TRUE, key |-> GenerateAuthKey(username, realm, token)]

\* the callback of a server started with neither TURN_REALM nor
\* TURN_USERNAME_PREFIX set
AuthHandler(rows, now, username, realmParam, lookup) ==
  AuthHandlerWith(Realm, UsernamePrefix, rows, now, username, realmParam,
                  lookup)

\* part_012 lines 446-458: the credential loadIceServers builds for the
\* relay from the access token
LoadIceServers(t) ==
  [username |-> UsernamePrefix \o TokenText(t), credential |-> TokenText(t)]

\* the usernames and realms a relay client may present
RelayUsernames ==
  {LoadIceServers(t).username : t \in Tokens \cup {"unknown"}}
    \cup {UsernamePrefix, TokenText("t2"), <<"teamsync">>, <<>>,
          <<"other", ":", "t2">>}
RelayRealms == {Realm, <<"other">>}

NoAuth == [username |-> <<>>, realm |-> <<>>, lookup |-> "none",
           ok |-> FALSE, key |-> NoKey]

\* the server's Config before main has read the environment
NoConfig == [Realm |-> <<"?">>, UsernamePrefix |-> <<"?">>]

\* no client has asked the relay under the server's configuration yet
NoAllocation ==
  [token |-> "", way |-> "none", username |-> <<>>, valid |-> FALSE,
   clientKey |-> NoKey, ok |-> FALSE, key |-> NoKey]

\* the relay after start-up: the token rows, no authentication yet
RelayInit ==
  [rows |-> Tokens, clock |-> 1, last |-> NoAuth, accepted |-> {},
   derived |-> {}, config |-> NoConfig, allocation |-> NoAllocation]

\* the relay server authenticates a request
RelayAuth ==
  /\ \E username \in RelayUsernames, realmParam \in RelayRealms,
        lookup \in {"ok", "timeout", "error"} :
       LET res == AuthHandler(relay.rows, relay.clock, username, realmParam,
                              lookup)
       IN relay' = [relay EXCEPT
            !.last = [username |-> username, realm |-> realmParam,
                      lookup |-> lookup, ok |-> res.ok, key |-> res.key],
            !.accepted = IF res.ok THEN @ \cup {username} ELSE @]
  /\ UNCHANGED <<serverVars, client, statusResp, callMutex, peers>>

\* a client with access token t builds its relay credential, and from it
\* and the realm of the server's challenge the key of its requests
RelayDerive(t) ==
  /\ LET cred == LoadIceServers(t) IN
     relay' = [relay EXCEPT !.derived = @ \cup
                 {[token |-> cred.credential, username |-> cred.username,
                   key |-> GenerateAuthKey(cred.username, Realm,
                                           cred.credential)]}]
  /\ relay' # relay
  /\ UNCHANGED <<serverVars, client, statusResp, callMutex, peers>>

\* DeleteToken: DELETE FROM oauth_tokens WHERE access_token = t
DeleteToken(t) ==
  /\ t \in relay.rows
  /\ relay' = [relay EXCEPT !.rows = @ \ {t}]
  /\ UNCHANGED <<serverVars, client, statusResp, callMutex, peers>>

\* DeleteUserTokens: DELETE FROM oauth_tokens WHERE user_id = u
DeleteUserTokens(u) ==
  /\ \E t \in relay.rows : TokenUser(t) = u
  /\ relay' = [relay EXCEPT !.rows = {t \in @ : TokenUser(t) # u}]
  /\ UNCHANGED <<serverVars, client, statusResp, callMutex, peers>>

\* time passes
RelayTick ==
  /\ relay.clock < MaxClock
  /\ relay' = [relay EXCEPT !.clock = @ + 1]
  /\ UNCHANGED <<serverVars, client, statusResp, callMutex, peers>>

\* main: the values TURN_REALM and TURN_USERNAME_PREFIX may have, trimmed;
\* <<>> is unset or blank
TurnRealms == {<<>>, <<"teamsync">>, <<"corp">>}
TurnUsernamePrefixes == {<<>>, <<"teamsync", ":">>, <<"corp", ":">>}

\* NewServer, lines 98-106 and 226-231: the effective configuration, with
\* the defaults for what is not set
EffectiveConfig(cfg) ==
  [Realm |-> IF cfg.Realm = <<>> THEN Realm ELSE cfg.Realm,
   UsernamePrefix |-> IF cfg.UsernamePrefix = <<>> THEN UsernamePrefix
                      ELSE cfg.UsernamePrefix]

\* main: the relay server is started with the configuration of the
\* environment, and the API server is given the effective configuration
TurnNewServer ==
  /\ relay.config = NoConfig
  /\ \E realm \in TurnRealms, usernamePrefix \in TurnUsernamePrefixes :
       relay' = [relay EXCEPT !.config =
                   EffectiveConfig([Realm |-> realm,
                                    UsernamePrefix |-> usernamePrefix])]
  /\ UNCHANGED <<serverVars, client, statusResp, callMutex, peers>>

\* handleCallConfig: usernamePrefix and realm of the response
HandleCallConfig(config) ==
  [usernamePrefix |-> config.UsernamePrefix, realm |-> config.Realm]

\* part_012 line 419: DEFAULT_TURN_USERNAME_PREFIX
DefaultTurnUsernamePrefix == <<"teamsync", ":">>

\* part_012 lines 475-501: the TURN entry of buildFallbackIceServers
BuildFallbackIceServers(t, prefix) ==
  [username |-> prefix \o TokenText(t), credential |-> TokenText(t)]

\* part_012 lines 425-473: the TURN entry loadIceServers returns for access
\* token t: from the configuration response, or the fallback of the catch
\* when the request has failed
LoadIceServersFrom(t, config, fetch) ==
  IF fetch = "ok"
  THEN LET configuration == HandleCallConfig(config)
           prefix == IF configuration.usernamePrefix = <<>>
                     THEN DefaultTurnUsernamePrefix
                     ELSE configuration.usernamePrefix
       IN [username |-> prefix \o TokenText(t), credential |-> TokenText(t)]
  ELSE BuildFallbackIceServers(t, DefaultTurnUsernamePrefix)

\* a client with access token t loads its ICE servers, the request for the
\* configuration succeeding or failing, and asks the relay for an
\* allocation: it answers the relay's challenge with the key of its
\* username, the challenge's realm and its credential, and the relay calls
\* authHandler for the username
TurnAllocate(t, fetch) ==
  /\ relay.config # NoConfig
  /\ LET cred == LoadIceServersFrom(t, relay.config, fetch)
         res == AuthHandlerWith(relay.config.Realm,
                                relay.config.UsernamePrefix, relay.rows,
                                relay.clock, cred.username,
                                relay.config.Realm, "ok")
     IN relay' = [relay EXCEPT !.allocation =
          [token |-> t, way |-> fetch, username |-> cred.username,
           valid |-> t \in relay.rows /\ ~Expired(t, relay.clock),
           clientKey |-> GenerateAuthKey(cred.username, relay.config.Realm,
                                         cred.credential),
           ok |-> res.ok, key |-> res.key]]
  /\ UNCHANGED <<serverVars, client, statusResp, callMutex, peers>>

----------------------------------------------------------------------------
(* The client's call session: connectWebSocket of the call context         *)

\* signaling messages the socket delivers to the client over a run
MaxClientMsgs == 2
\* local ICE candidates the peer connection generates over a run
MaxLocalCandidates == 1

MessageTypes ==
  {"peer-joined", "offer", "answer", "ice-candidate", "renegotiate",
   "renegotiate-answer"}

\* the client state after connectWebSocket has set up its handlers and the
\* call is established; log is the history of the socket and of the peer
\* connection's candidate events. activeCall and callStateRef are "none"
\* (null), "bare" (the new CallState, its ws, pc and streams null), "full"
\* (ws, pc and streams filled in) or "next" (the CallState of a later
\* call); init is the position of startCall or answerCall; tracks, pc and
\* ws are the local media tracks, the peer connection and the socket of
\* the call; ended tells that endCall has run for it
ClientInit(initiator) ==
  [isInitiator |-> initiator,
   hasPeerJoined |-> FALSE,
   pendingLocalCandidates |-> <<>>,
   pendingRemoteCandidates |-> <<>>,
   iceGatheringState |-> "new",
   localDescription |-> "none",
   remoteDescription |-> "none",
   handlers |-> <<>>,
   applied |-> <<>>,
   log |-> <<>>,
   generated |-> 0,
   received |-> 0,
   activeCall |-> "full",
   callStateRef |-> "full",
   init |-> "done",
   tracks |-> "live",
   pc |-> "open",
   ws |-> "open",
   ended |-> FALSE]

\* the client state when startCall or answerCall has stored the new
\* CallState (lines 164 and 213) and initializeCall waits for getUserMedia
SessionInit(initiator) ==
  [ClientInit(initiator) EXCEPT
     !.activeCall = "bare", !.callStateRef = "none", !.init = "getUserMedia",
     !.tracks = "none", !.pc = "none", !.ws = "none"]

\* ws.send(JSON.stringify({type, payload})); a socket that is closing or
\* closed discards the data
WsSend(st, type, payload) ==
  IF st.ws # "open" THEN st
  ELSE [st EXCEPT !.log = Append(@, [ev |-> "send", type |-> type,
                                     payload |-> payload])]

\* the loop of lines 547-567 over the queued candidates
RECURSIVE SendQueued(_, _)
SendQueued(st, queued) ==
  IF queued = <<>> THEN st
  ELSE SendQueued(WsSend(st, "ice-candidate", Head(queued)), Tail(queued))

\* FlushPendingLocalCandidates with no test of hasPeerJoined
FlushUnguarded(st) ==
  IF st.pendingLocalCandidates = <<>> THEN st
  ELSE SendQueued([st EXCEPT !.pendingLocalCandidates = <<>>],
                  st.pendingLocalCandidates)

\* lines 531-568
FlushPendingLocalCandidates(st) ==
  IF ~st.hasPeerJoined THEN st
  ELSE IF st.pendingLocalCandidates = <<>> THEN st
  ELSE SendQueued([st EXCEPT !.pendingLocalCandidates = <<>>],
                  st.pendingLocalCandidates)

\* OnIceCandidate sending every candidate at once
OnIceCandidateUnbuffered(st, cand) ==
  WsSend(st, "ice-candidate", cand)

\* lines 602-623: pc.onicecandidate with a candidate
OnIceCandidate(st, cand) ==
  IF ~st.hasPeerJoined
  THEN [st EXCEPT !.pendingLocalCandidates = Append(@, cand)]
  ELSE WsSend(st, "ice-candidate", cand)

\* GatheringDone taking "gathering" for the end of gathering as well
GatheringStarted(st) == st.iceGatheringState # "new"

\* lines 587 and 593: the test waitForIceGatheringComplete resolves on
GatheringDone(st) == st.iceGatheringState = "complete"

\* a handler continues after waitForIceGatheringComplete: lines 724-746 for
\* peer-joined, lines 760-775 for offer
AfterGathering(st, h) ==
  IF st.localDescription = "none" THEN st
  ELSE IF h.case = "peer-joined"
  THEN FlushPendingLocalCandidates(
         [WsSend(st, "offer", "sdp") EXCEPT !.hasPeerJoined = TRUE])
  ELSE FlushPendingLocalCandidates(WsSend(st, "answer", "sdp"))

\* q without its i-th element
RemoveAt(q, i) == SubSeq(q, 1, i - 1) \o SubSeq(q, i + 1, Len(q))

\* handler i is done
Finish(st, i) == [st EXCEPT !.handlers = RemoveAt(@, i)]

\* handler i is suspended at the await named at
Suspend(st, i, at) == [st EXCEPT !.handlers[i].at = at]

\* AwaitGathering going on without waiting
AwaitGatheringNever(st, i) == Finish(AfterGathering(st, st.handlers[i]), i)

\* handler i reaches waitForIceGatheringComplete: lines 722 and 758
AwaitGathering(st, i) ==
  IF GatheringDone(st) THEN Finish(AfterGathering(st, st.handlers[i]), i)
  ELSE Suspend(st, i, "waitGather")

\* handler i is past flushPendingRemoteCandidates: createAnswer for offer
\* (line 756), the local flush for answer (line 785)
AfterRemoteFlush(st, i) ==
  IF st.handlers[i].case = "offer" THEN Suspend(st, i, "createAnswer")
  ELSE Finish(FlushPendingLocalCandidates(st), i)

\* lines 570-584, one turn of the loop: addIceCandidate for the next
\* candidate of the array the loop runs over, or the reset after the last
FlushRemoteTurn(st, i) ==
  LET rest == st.handlers[i].rest IN
  IF rest = <<>>
  THEN AfterRemoteFlush([st EXCEPT !.pendingRemoteCandidates = <<>>], i)
  ELSE [st EXCEPT !.applied = IF st.pc = "open" THEN Append(@, Head(rest))
                              ELSE @,
                  !.handlers[i].rest = Tail(rest),
                  !.handlers[i].at = "flushRemote"]

\* lines 571 and 575: flushPendingRemoteCandidates is entered
FlushPendingRemoteCandidates(st, i) ==
  IF st.pendingRemoteCandidates = <<>> THEN AfterRemoteFlush(st, i)
  ELSE FlushRemoteTurn(
         [st EXCEPT !.handlers[i].rest = st.pendingRemoteCandidates], i)

\* lines 709-835: the awaited promise of handler i resolves and the handler
\* runs on to its next await or to its end; on a closed peer connection
\* createOffer, createAnswer and the two setDescription calls reject and
\* the catch of line 832 ends the handler
Resume(st, i) ==
  LET h == st.handlers[i] IN
  IF st.pc # "open" /\ h.at # "flushRemote" THEN Finish(st, i) ELSE
  CASE h.at = "createOffer" -> Suspend(st, i, "setLocal")
    [] h.at = "createAnswer" -> Suspend(st, i, "setLocal")
    [] h.at = "setLocal" ->
         IF h.case = "peer-joined"
         THEN AwaitGathering([st EXCEPT !.localDescription = "offer"], i)
         ELSE IF h.case = "offer"
         THEN AwaitGathering([st EXCEPT !.localDescription = "answer"], i)
         ELSE Finish(WsSend([st EXCEPT !.localDescription = "answer"],
                            "renegotiate-answer", "sdp"), i)
    [] h.at = "setRemote" ->
         IF h.case = "offer"
         THEN FlushPendingRemoteCandidates(
                [st EXCEPT !.remoteDescription = "offer"], i)
         ELSE IF h.case = "answer"
         THEN FlushPendingRemoteCandidates(
                [st EXCEPT !.remoteDescription = "answer"], i)
         ELSE IF h.case = "renegotiate"
         THEN Suspend([st EXCEPT !.remoteDescription = "offer"], i,
                      "createAnswer")
         ELSE Finish([st EXCEPT !.remoteDescription = "answer"], i)
    [] h.at = "flushRemote" -> FlushRemoteTurn(st, i)
    [] OTHER -> st

\* OnMessage with no test of isInitiator at line 718
OnMessageOfferingAlways(st, t, cand) ==
  LET s1 == [st EXCEPT !.log = Append(@, [ev |-> "recv", type |-> t,
                                          payload |-> cand]),
                       !.received = @ + 1]
      start(at) == [s1 EXCEPT !.handlers =
                      Append(@, [case |-> t, at |-> at, rest |-> <<>>])]
  IN
  CASE t = "peer-joined" -> start("createOffer")
    [] t = "ice-candidate" ->
         IF s1.remoteDescription = "none"
         THEN [s1 EXCEPT !.pendingRemoteCandidates = Append(@, cand)]
         ELSE IF s1.pc = "open" THEN [s1 EXCEPT !.applied = Append(@, cand)]
         ELSE s1
    [] OTHER -> start("setRemote")

\* lines 709-831 up to the first await: ws.onmessage with a message of
\* type t; cand is the payload of an ice-candidate
OnMessage(st, t, cand) ==
  LET s1 == [st EXCEPT !.log = Append(@, [ev |-> "recv", type |-> t,
                                          payload |-> cand]),
                       !.received = @ + 1]
      start(at) == [s1 EXCEPT !.handlers =
                      Append(@, [case |-> t, at |-> at, rest |-> <<>>])]
  IN
  CASE t = "peer-joined" ->
         IF s1.isInitiator THEN start("createOffer")
         ELSE FlushPendingLocalCandidates([s1 EXCEPT !.hasPeerJoined = TRUE])
    [] t = "ice-candidate" ->
         IF s1.remoteDescription = "none"
         THEN [s1 EXCEPT !.pendingRemoteCandidates = Append(@, cand)]
         ELSE IF s1.pc = "open" THEN [s1 EXCEPT !.applied = Append(@, cand)]
         ELSE s1
    [] OTHER -> start("setRemote")

\* the handlers waiting in waitForIceGatheringComplete run on, in the order
\* in which they began to wait, when the state has become complete
RECURSIVE ResumeWaiting(_, _)
ResumeWaiting(st, i) ==
  IF i > Len(st.handlers) THEN st
  ELSE IF st.handlers[i].at = "waitGather"
  THEN ResumeWaiting(Finish(AfterGathering(st, st.handlers[i]), i), i)
  ELSE ResumeWaiting(st, i + 1)

\* icegatheringstatechange: the listeners of lines 592-598 run
OnGatheringStateChange(st, to) ==
  LET s1 == [st EXCEPT !.iceGatheringState = to] IN
  IF GatheringDone(s1) THEN ResumeWaiting(s1, 1) ELSE s1

\* the socket delivers a message
ClientReceive ==
  /\ client.ws = "open"
  /\ client.received < MaxClientMsgs
  /\ \E t \in MessageTypes :
       client' = OnMessage(client, t,
                           IF t = "ice-candidate" THEN client.received + 1
                           ELSE 0)
  /\ UNCHANGED nonClientVars

\* an awaited promise resolves
ClientResume ==
  /\ \E i \in 1..Len(client.handlers) :
       /\ client.handlers[i].at # "waitGather"
       /\ client' = Resume(client, i)
  /\ UNCHANGED nonClientVars

\* an awaited createOffer, createAnswer, setLocalDescription or
\* setRemoteDescription rejects: the catch of line 832 ends the handler
ClientReject ==
  /\ \E i \in 1..Len(client.handlers) :
       /\ client.handlers[i].at \in
            {"createOffer", "createAnswer", "setLocal", "setRemote"}
       /\ client' = Finish(client, i)
  /\ UNCHANGED nonClientVars

\* lines 602-623: the peer connection reports a local candidate, as long as
\* it has reported fewer than limit
LocalCandidate(limit) ==
  /\ client.pc = "open"
  /\ client.generated < limit
  /\ LET cand == client.generated + 1
         s1 == [client EXCEPT !.generated = cand,
                              !.log = Append(@, [ev |-> "candidate",
                                                 type |-> "ice-candidate",
                                                 payload |-> cand])]
     IN client' = OnIceCandidate(s1, cand)
  /\ UNCHANGED nonClientVars

\* the peer connection reports a local candidate
ClientLocalCandidate == LocalCandidate(MaxLocalCandidates)

\* the peer connection's gathering state changes
ClientGathering ==
  /\ client.pc = "open"
  /\ \E to \in {"gathering", "complete"} :
       /\ to # client.iceGatheringState
       /\ to = "complete" => client.iceGatheringState = "gathering"
       /\ client' = OnGatheringStateChange(client, to)
  /\ UNCHANGED nonClientVars

----------------------------------------------------------------------------
(* The client's call lifecycle: startCall, answerCall, initializeCall and  *)
(* endCall of the call context                                             *)

\* lines 75-116: endCall works on the CallState the ref holds: it closes the
\* socket, stops the tracks and closes the peer connection that this state
\* names, and sets the active call to null; close() and stop() on what is
\* closed or stopped already do nothing
endCall(st) ==
  IF st.callStateRef = "none" THEN st
  ELSE LET full == st.callStateRef = "full" IN
       [st EXCEPT
          !.ws = IF full /\ @ \in {"connecting", "open"} THEN "closing" ELSE @,
          !.tracks = IF full /\ @ = "live" THEN "stopped" ELSE @,
          !.pc = IF full /\ @ = "open" THEN "closed" ELSE @,
          !.activeCall = "none",
          !.ended = TRUE]

\* lines 376-400 and 512-523: getUserMedia resolves; initializeCall clones
\* the stream, creates the peer connection and, in connectWebSocket, the
\* socket
SessionGetUserMedia ==
  /\ client.init = "getUserMedia"
  /\ client' = [client EXCEPT !.tracks = "live", !.pc = "open",
                              !.ws = "connecting", !.init = "opening"]
  /\ UNCHANGED nonClientVars

\* lines 374-379: loadIceServers or getUserMedia rejects; startCall rejects
\* and its caller logs the error
SessionInitFail ==
  /\ client.init = "getUserMedia"
  /\ client' = [client EXCEPT !.init = "failed"]
  /\ UNCHANGED nonClientVars

\* lines 175-179 and 224-228: startCall or answerCall goes on after
\* initializeCall and fills ws, pc and the streams into the active call,
\* if there is one
SessionPopulate(st) ==
  [st EXCEPT !.init = "done",
             !.activeCall = IF @ = "none" THEN "none" ELSE "full"]

\* lines 703-707: ws.onopen resolves connectWebSocket; initializeCall
\* returns and startCall or answerCall goes on, all before the next event
\* is delivered
ClientWsOpen ==
  /\ client.ws = "connecting"
  /\ client' = IF client.init = "opening"
               THEN SessionPopulate([client EXCEPT !.ws = "open"])
               ELSE [client EXCEPT !.ws = "open"]
  /\ UNCHANGED nonClientVars

\* lines 837-841: ws.onerror rejects connectWebSocket; the socket's close
\* event follows
ClientWsError ==
  /\ client.ws \in {"connecting", "open"}
  /\ client' = [client EXCEPT !.ws = "closing",
                              !.init = IF @ = "opening" THEN "failed" ELSE @]
  /\ UNCHANGED nonClientVars

\* lines 843-853: the socket's close event, after the coordinator has
\* closed the socket, after close() or after an error: ws.onclose runs
\* endCall
ClientWsClose ==
  /\ client.ws \in {"open", "closing"}
  /\ client' = endCall([client EXCEPT !.ws = "closed"])
  /\ UNCHANGED nonClientVars

\* lines 67-69: the effect copies the active call into the ref after a
\* render
ClientEffect ==
  /\ client.callStateRef # client.activeCall
  /\ client' = [client EXCEPT !.callStateRef = client.activeCall]
  /\ UNCHANGED nonClientVars

\* the hang-up button of the call window, or any other caller, runs endCall
ClientEndCall ==
  /\ client.activeCall # "none" \/ client.ended
  /\ client' = endCall(client)
  /\ client' # client
  /\ UNCHANGED nonClientVars

\* lines 124-164 and 190-213: with no active call, startCall or answerCall
\* begins the next call and stores its CallState
ClientStartNext ==
  /\ client.ended
  /\ client.activeCall = "none"
  /\ client' = [client EXCEPT !.activeCall = "next"]
  /\ UNCHANGED nonClientVars

----------------------------------------------------------------------------
(* Renegotiation between the two clients of an established call:           *)
(* toggleScreenShare and the renegotiate cases of ws.onmessage, over       *)
(* RTCPeerConnection's signaling state                                     *)

Sides == {1, 2}
Other(p) == 3 - p

\* one client once the first offer and answer are through: signalingState
\* stable, toggleScreenShare not running, no handler, nothing in flight
SideInit ==
  [signalingState |-> "stable",
   toggle |-> "idle",
   toggles |-> 0,
   handlers |-> <<>>,
   inbox |-> <<>>,
   renegotiates |-> 0,
   answers |-> 0]

PeersInit == [p \in Sides |-> SideInit]

\* setLocalDescription and setRemoteDescription of an offer are valid in
\* stable and in the state that already holds an offer of the same side
CanSetLocalOffer(s) == s \in {"stable", "have-local-offer"}
CanSetRemoteOffer(s) == s \in {"stable", "have-remote-offer"}

\* lines 261-263 and 276-277 or 291-299: toggleScreenShare is called and
\* awaits createOffer, its track removed or added
ToggleScreenShare(p, limit) ==
  /\ peers[p].toggle = "idle"
  /\ peers[p].toggles < limit
  /\ peers' = [peers EXCEPT ![p].toggle = "createOffer",
                            ![p].toggles = @ + 1]
  /\ UNCHANGED <<serverVars, client, statusResp, relay, callMutex>>

\* lines 276 and 298: createOffer resolves
ToggleCreateOffer(p) ==
  /\ peers[p].toggle = "createOffer"
  /\ peers' = [peers EXCEPT ![p].toggle = "setLocal"]
  /\ UNCHANGED <<serverVars, client, statusResp, relay, callMutex>>

\* lines 277-286 and 299-308: setLocalDescription of the offer resolves and
\* renegotiate is sent, or it rejects in have-remote-offer and
\* toggleScreenShare ends there
ToggleSetLocal(p) ==
  /\ peers[p].toggle = "setLocal"
  /\ IF CanSetLocalOffer(peers[p].signalingState)
     THEN peers' = [peers EXCEPT
                      ![p].toggle = "idle",
                      ![p].signalingState = "have-local-offer",
                      ![Other(p)].inbox = Append(@, "renegotiate")]
     ELSE peers' = [peers EXCEPT ![p].toggle = "idle"]
  /\ UNCHANGED <<serverVars, client, statusResp, relay, callMutex>>

\* lines 709-712 and 802-804 or 823-827: ws.onmessage with renegotiate or
\* renegotiate-answer, up to the await of setRemoteDescription
PeerReceive(p) ==
  /\ peers[p].inbox # <<>>
  /\ LET t == Head(peers[p].inbox) IN
     peers' = [peers EXCEPT
                 ![p].inbox = Tail(@),
                 ![p].handlers = Append(@, [case |-> t, at |-> "setRemote"]),
                 ![p].renegotiates = IF t = "renegotiate" THEN @ + 1 ELSE @]
  /\ UNCHANGED <<serverVars, client, statusResp, relay, callMutex>>

\* the side after its handler i has ended
HandlerDone(s, i) == [s EXCEPT !.handlers = RemoveAt(@, i)]

\* lines 804-822: the renegotiate handler i of side s goes on after its
\* await; an operation that is invalid in the signaling state rejects and
\* the catch of line 832 ends the handler. The result is the side and
\* whether renegotiate-answer has been sent
RenegotiateResume(s, i) ==
  LET at == s.handlers[i].at IN
  CASE at = "setRemote" ->
         IF CanSetRemoteOffer(s.signalingState)
         THEN [side |-> [s EXCEPT !.signalingState = "have-remote-offer",
                                  !.handlers[i].at = "createAnswer"],
               sent |-> FALSE]
         ELSE [side |-> HandlerDone(s, i), sent |-> FALSE]
    [] at = "createAnswer" ->
         IF s.signalingState = "have-remote-offer"
         THEN [side |-> [s EXCEPT !.handlers[i].at = "setLocal"],
               sent |-> FALSE]
         ELSE [side |-> HandlerDone(s, i), sent |-> FALSE]
    [] OTHER ->
         IF s.signalingState = "have-remote-offer"
         THEN [side |-> HandlerDone([s EXCEPT !.signalingState = "stable",
                                              !.answers = @ + 1], i),
               sent |-> TRUE]
         ELSE [side |-> HandlerDone(s, i), sent |-> FALSE]

\* lines 823-830: the renegotiate-answer handler i of side s, whose
\* setRemoteDescription is valid in have-local-offer
RenegotiateAnswerResume(s, i) ==
  IF s.signalingState = "have-local-offer"
  THEN HandlerDone([s EXCEPT !.signalingState = "stable"], i)
  ELSE HandlerDone(s, i)

\* an awaited promise of a handler of side p resolves or rejects
PeerResume(p) ==
  /\ \E i \in 1..Len(peers[p].handlers) :
       IF peers[p].handlers[i].case = "renegotiate"
       THEN LET r == RenegotiateResume(peers[p], i) IN
            peers' = [peers EXCEPT
                        ![p] = r.side,
                        ![Other(p)].inbox =
                          IF r.sent THEN Append(@, "renegotiate-answer")
                          ELSE @]
       ELSE peers' = [peers EXCEPT
                        ![p] = RenegotiateAnswerResume(peers[p], i)]
  /\ UNCHANGED <<serverVars, client, statusResp, relay, callMutex>>

\* line 804 in have-local-offer, in a browser that rolls the local offer
\* back for a remote one: setRemoteDescription resolves
PeerRollback(p) ==
  /\ \E i \in 1..Len(peers[p].handlers) :
       /\ peers[p].handlers[i] = [case |-> "renegotiate", at |-> "setRemote"]
       /\ peers[p].signalingState = "have-local-offer"
       /\ peers' = [peers EXCEPT
                      ![p].signalingState = "have-remote-offer",
                      ![p].handlers[i].at = "createAnswer"]
  /\ UNCHANGED <<serverVars, client, statusResp, relay, callMutex>>

----------------------------------------------------------------------------
(* The server: start-call handlers and signaling connections *)

\* the server after start-up: empty tables of calls and messages, an empty
\* registry, no request in progress
ServerInit ==
  /\ lastMessageSeq = [cv \in Conversations |-> 0]
  /\ messages = <<>>
  /\ calls = <<>>
  /\ endCallCount = [k \in CallIDs |-> 0]
  /\ startReq = [r \in StartReqs |->
                   [pc |-> "new", user |-> 0, conv |-> NoConversation,
                    status |-> 0, callID |-> NoCall, messageID |-> 0]]
  /\ callConnections = [k \in CallIDs |-> <<>>]
  /\ connPc = [c \in Conns |-> "new"]
  /\ connUser = [c \in Conns |-> 0]
  /\ connCall = [c \in Conns |-> NoCall]
  /\ connOpen = [c \in Conns |-> FALSE]
  /\ send = [c \in Conns |-> <<>>]
  /\ sendClosed = [c \in Conns |-> 0]
  /\ writePc = [c \in Conns |-> "none"]
  /\ others = [c \in Conns |-> {}]
  /\ readMsg = [c \in Conns |-> NoMsg]
  /\ written = [c \in Conns |-> <<>>]
  /\ framesRead = 0
  /\ closedBy = [c \in Conns |-> "none"]
  /\ peerJoinedSent = [c \in Conns |-> 0]
  /\ dropped = [c \in Conns |-> 0]
  /\ statusResp = NoResponse
  /\ relay = RelayInit
  /\ callMutex = Unlocked
  /\ peers = PeersInit

Init == ServerInit /\ client = ClientInit(TRUE)

\* a call session begins on the client, as initiator (startCall) or not
\* (answerCall)
InitClient == ServerInit /\ client \in {ClientInit(i) : i \in BOOLEAN}

\* startCall or answerCall has just begun a call
InitSession == ServerInit /\ client \in {SessionInit(i) : i \in BOOLEAN}

\* one call: one start-call request, the two connections of the call,
\* frames
Next ==
  \/ StartCallCheck(1)
  \/ StartCallCommit(1)
  \/ \E c \in PairConns : SignalingAccept(c)
  \/ \E c \in PairConns : Register(c)
  \/ \E c \in PairConns : ReadFrame(c)
  \/ \E c \in PairConns : Forward(c)
  \/ \E c \in PairConns : ClientClose(c)
  \/ \E c \in PairConns : ReadError(c)
  \/ \E c \in PairConns : ReadMalformed(c)
  \/ \E c \in PairConns : TeardownUnregister(c)
  \/ \E c \in PairConns : TeardownCloseOthers(c)
  \/ \E c \in PairConns : WriteNext(c)
  \/ \E c \in PairConns : WriteLost(c)
  \/ \E c \in PairConns : WriteDone(c)

Spec == Init /\ [][Next]_vars

\* two calls: two start-call requests, two connections, frames
NextTwoCalls ==
  \/ \E r \in {1, 2} : StartCallCheck(r)
  \/ \E r \in {1, 2} : StartCallCommit(r)
  \/ \E r \in {1, 2} : StartCallTxFail(r)
  \/ \E c \in PairConns : SignalingAccept(c)
  \/ \E c \in PairConns : Register(c)
  \/ \E c \in PairConns : ReadFrame(c)
  \/ \E c \in PairConns : Forward(c)
  \/ \E c \in PairConns : ClientClose(c)
  \/ \E c \in PairConns : ReadError(c)
  \/ \E c \in PairConns : ReadMalformed(c)
  \/ \E c \in PairConns : TeardownUnregister(c)
  \/ \E c \in PairConns : TeardownCloseOthers(c)
  \/ \E c \in PairConns : WriteNext(c)
  \/ \E c \in PairConns : WriteLost(c)
  \/ \E c \in PairConns : WriteDone(c)

SpecTwoCalls == Init /\ [][NextTwoCalls]_vars

\* start-call requests and one signaling connection, whose teardown ends
\* its call
NextStart ==
  \/ \E r \in StartReqs : StartCallCheck(r)
  \/ \E r \in StartReqs : StartCallCommit(r)
  \/ \E r \in StartReqs : StartCallTxFail(r)
  \/ SignalingAccept(1)
  \/ Register(1)
  \/ ClientClose(1)
  \/ ReadError(1)
  \/ TeardownUnregister(1)
  \/ TeardownCloseOthers(1)
  \/ CallStatus

SpecStart == Init /\ [][NextStart]_vars

\* the registry of one call: one start-call request, connections that
\* register and close, no frames
NextRegistry ==
  \/ StartCallCheck(1)
  \/ StartCallCommit(1)
  \/ \E c \in RegistryConns : SignalingAccept(c)
  \/ \E c \in RegistryConns : Register(c)
  \/ \E c \in RegistryConns : ClientClose(c)
  \/ \E c \in RegistryConns : ReadError(c)
  \/ \E c \in RegistryConns : TeardownUnregister(c)
  \/ \E c \in RegistryConns : TeardownCloseOthers(c)
  \/ \E c \in RegistryConns : WriteNext(c)
  \/ \E c \in RegistryConns : WriteLost(c)
  \/ \E c \in RegistryConns : WriteDone(c)

SpecRegistry == Init /\ [][NextRegistry]_vars

\* the same with one connection more
NextThird ==
  \/ StartCallCheck(1)
  \/ StartCallCommit(1)
  \/ \E c \in Conns : SignalingAccept(c)
  \/ \E c \in Conns : Register(c)
  \/ \E c \in Conns : ClientClose(c)
  \/ \E c \in Conns : ReadError(c)
  \/ \E c \in Conns : TeardownUnregister(c)
  \/ \E c \in Conns : TeardownCloseOthers(c)
  \/ \E c \in Conns : WriteNext(c)
  \/ \E c \in Conns : WriteLost(c)
  \/ \E c \in Conns : WriteDone(c)

SpecThird == Init /\ [][NextThird]_vars

\* the goroutines of a connection run on once they can: the read loop sees
\* the error of a closed transport, the deferred teardown runs to its end
Fairness ==
  \A c \in RegistryConns :
    /\ WF_vars(ReadError(c))
    /\ WF_vars(TeardownUnregister(c))
    /\ WF_vars(TeardownCloseOthers(c))

FairSpec == Init /\ [][NextRegistry]_vars /\ Fairness

\* the same, and writePump runs on while it has a message to take or its
\* channel is closed
FairnessPump ==
  \A c \in RegistryConns :
    /\ WF_vars(ReadError(c))
    /\ WF_vars(TeardownUnregister(c))
    /\ WF_vars(TeardownCloseOthers(c))
    /\ WF_vars(WriteNext(c))
    /\ WF_vars(WriteDone(c))

FairSpecPump == Init /\ [][NextRegistry]_vars /\ FairnessPump

\* one call and its two connections, whose writes may fail
NextWrite ==
  \/ StartCallCheck(1)
  \/ StartCallCommit(1)
  \/ \E c \in PairConns : SignalingAccept(c)
  \/ \E c \in PairConns : Register(c)
  \/ \E c \in PairConns : ClientClose(c)
  \/ \E c \in PairConns : ReadError(c)
  \/ \E c \in PairConns : TeardownUnregister(c)
  \/ \E c \in PairConns : TeardownCloseOthers(c)
  \/ \E c \in PairConns : WriteNext(c)
  \/ \E c \in PairConns : WriteError(c)
  \/ \E c \in PairConns : WriteDone(c)

\* the read loop sees the error of a closed transport and the deferred
\* teardown runs to its end
FairnessWrite ==
  \A c \in PairConns :
    /\ WF_vars(ReadError(c))
    /\ WF_vars(TeardownUnregister(c))
    /\ WF_vars(TeardownCloseOthers(c))

FairSpecWrite == Init /\ [][NextWrite]_vars /\ FairnessWrite

\* one call and its two connections, the critical sections step by step
NextLock ==
  \/ StartCallCheck(1)
  \/ StartCallCommit(1)
  \/ \E c \in PairConns : SignalingAccept(c)
  \/ \E c \in PairConns : LockRegister(c)
  \/ \E c \in PairConns : UnlockRegister(c)
  \/ \E c \in PairConns : ReadFrame(c)
  \/ \E c \in PairConns : RLockForward(c)
  \/ \E c \in PairConns : RUnlockForward(c)
  \/ \E c \in PairConns : ClientClose(c)
  \/ \E c \in PairConns : ReadError(c)
  \/ \E c \in PairConns : LockTeardown(c)
  \/ \E c \in PairConns : UnlockTeardown(c)
  \/ \E c \in PairConns : TeardownCloseOthers(c)
  \/ \E c \in PairConns : WriteNext(c)

SpecLock == Init /\ [][NextLock]_vars

\* one call and three connections that register, forward and tear down
NextTrio ==
  \/ StartCallCheck(1)
  \/ StartCallCommit(1)
  \/ \E c \in TrioConns : SignalingAccept(c)
  \/ \E c \in TrioConns : Register(c)
  \/ \E c \in TrioConns : ReadFrame(c)
  \/ \E c \in TrioConns : Forward(c)
  \/ \E c \in TrioConns : ClientClose(c)
  \/ \E c \in TrioConns : ReadError(c)
  \/ \E c \in TrioConns : TeardownUnregister(c)
  \/ \E c \in TrioConns : TeardownCloseOthers(c)

SpecTrio == Init /\ [][NextTrio]_vars

\* one call and its two connections; the client of connection 1 sends its
\* frames in order
NextOrder ==
  \/ StartCallCheck(1)
  \/ StartCallCommit(1)
  \/ \E c \in PairConns : SignalingAccept(c)
  \/ \E c \in PairConns : Register(c)
  \/ ReadSubmitted(1)
  \/ Forward(1)
  \/ \E c \in PairConns : ClientClose(c)
  \/ \E c \in PairConns : ReadError(c)
  \/ \E c \in PairConns : TeardownUnregister(c)
  \/ \E c \in PairConns : TeardownCloseOthers(c)
  \/ \E c \in PairConns : WriteNext(c)
  \/ \E c \in PairConns : WriteLost(c)
  \/ \E c \in PairConns : WriteDone(c)

SpecOrder == Init /\ [][NextOrder]_vars

\* the two clients of an established call, each of which may toggle its
\* screen sharing twice
NextRenegotiate ==
  \/ \E p \in Sides : ToggleScreenShare(p, 2)
  \/ \E p \in Sides : ToggleCreateOffer(p)
  \/ \E p \in Sides : ToggleSetLocal(p)
  \/ \E p \in Sides : PeerReceive(p)
  \/ \E p \in Sides : PeerResume(p)
  \/ \E p \in Sides : PeerRollback(p)

SpecRenegotiate == Init /\ [][NextRenegotiate]_vars

\* the relay server under any configuration, its token rows over time, and
\* clients that load their ICE servers either way
NextTurn ==
  \/ TurnNewServer
  \/ \E t \in Tokens, fetch \in {"ok", "failed"} : TurnAllocate(t, fetch)
  \/ \E t \in Tokens : DeleteToken(t)
  \/ RelayTick

SpecTurn == Init /\ [][NextTurn]_vars

\* one client, as initiator or not, with any messages arriving in any
\* order
NextClient ==
  \/ ClientReceive
  \/ ClientResume
  \/ ClientReject
  \/ ClientLocalCandidate
  \/ ClientGathering

SpecClient == InitClient /\ [][NextClient]_vars

\* the same with a peer connection that reports up to two local candidates
NextCandidates ==
  \/ ClientReceive
  \/ ClientResume
  \/ ClientReject
  \/ LocalCandidate(2)
  \/ ClientGathering

SpecCandidates == InitClient /\ [][NextCandidates]_vars

\* one client from the start of its call to the end, and the start of the
\* next call
NextSession ==
  \/ ClientReceive
  \/ ClientResume
  \/ ClientReject
  \/ ClientLocalCandidate
  \/ ClientGathering
  \/ SessionGetUserMedia
  \/ SessionInitFail
  \/ ClientWsOpen
  \/ ClientWsError
  \/ ClientWsClose
  \/ ClientEffect
  \/ ClientEndCall
  \/ ClientStartNext

SpecSession == InitSession /\ [][NextSession]_vars

\* the relay server and its token rows over time
NextRelay ==
  \/ RelayAuth
  \/ \E t \in Tokens : DeleteToken(t)
  \/ \E u \in Users : DeleteUserTokens(u)
  \/ RelayTick

SpecRelay == Init /\ [][NextRelay]_vars

\* clients that derive relay credentials, and the relay server that
\* authenticates them
NextDerive ==
  \/ RelayAuth
  \/ \E t \in Tokens : RelayDerive(t)

SpecDerive == Init /\ [][NextDerive]_vars

----------------------------------------------------------------------------
(* Properties of the coordinator and of start-call *)

\* connection c is in the registry
InRegistry(c) ==
  /\ connCall[c] # NoCall
  /\ c \in Range(callConnections[connCall[c]])

\* the step is connection c's forward (lines 318-329)
ForwardStep(c) == connPc[c] = "forward" /\ connPc'[c] = "reading"

\* C1: the registry never holds more than two connections under one call
\* id (a third registration is rejected and leaves the entry as it is)
C1_AtMostTwoConnections ==
  \A k \in CallIDs : Len(callConnections[k]) <= 2

\* C2: EndCall's write runs at most once for each call, in every
\* interleaving of the teardowns
C2_EndCallOnce ==
  \A k \in CallIDs : endCallCount[k] <= 1

\* C3: when a and b are registered under one call and a's read loop has
\* exited, then eventually b is out of the registry and its transport is
\* closed, by the coordinator unless b's client closed it or sent a
\* malformed frame first
C3_SiblingForceClosed ==
  \A a, b \in RegistryConns :
    (a # b /\ connPc[a] = "teardown" /\ InRegistry(a) /\ InRegistry(b)
       /\ connCall[a] = connCall[b])
    ~> (~InRegistry(b) /\ ~connOpen[b]
          /\ closedBy[b] \in {"coordinator", "client", "malformed"})

\* a's teardown has closed b's transport while b's read loop was still
\* reading and b's client had done nothing
C3_Witness ==
  \E a, b \in RegistryConns :
    /\ a # b /\ connCall[a] = connCall[b]
    /\ connPc[a] = "done" /\ closedBy[a] = "client"
    /\ connPc[b] = "reading" /\ closedBy[b] = "coordinator" /\ ~InRegistry(b)

\* C4: a message read from a registered connection c is enqueued to every
\* other connection registered under c's call and to no other connection
C4_ForwardToEveryOther ==
  [][\A c \in Conns :
       (ForwardStep(c) /\ InRegistry(c)) =>
         \A d \in Conns :
           IF d # c /\ d \in Range(callConnections[connCall[c]])
           THEN send'[d] = Append(send[d], readMsg[c])
           ELSE send'[d] = send[d]]_vars

\* C4 as amended: the message is offered to the connections registered
\* under c's call whose user differs from c's user, where it is enqueued
\* unless the channel is full, and it reaches no other connection: not c,
\* not a connection of c's user, not a connection of another call
C4_ForwardToOtherUsers ==
  [][\A c \in Conns :
       ForwardStep(c) =>
         \A d \in Conns :
           IF /\ d \in Range(callConnections[connCall[c]])
              /\ connUser[d] # connUser[c]
           THEN IF Len(send[d]) < SendCap
                THEN send'[d] = Append(send[d], readMsg[c])
                ELSE send'[d] = send[d]
           ELSE send'[d] = send[d]]_vars

\* a frame read from one connection is in the channel of the other
\* connection of its call, and in no channel of the other call
C4_Witness ==
  \E c, d \in PairConns :
    /\ c # d /\ connCall[c] = connCall[d] /\ connUser[c] # connUser[d]
    /\ connPc[c] = "reading" /\ framesRead > 0
    /\ \E i \in 1..Len(send[d]) : send[d][i].from \in Frames

\* C5: every frame written to a recipient has the type and the payload of
\* the frame the sender submitted, and peer-joined is the only message with
\* no submitted frame behind it
C5_ContentPreserved ==
  \A c \in Conns : \A i \in 1..Len(written[c]) :
    LET w == written[c][i] IN
    IF w.from = NoFrame
    THEN w.frame = [type |-> "peer-joined", payload |-> NoPayload]
    ELSE w.frame.type = w.from.type /\ w.frame.payload = w.from.payload

\* the step enqueues a peer-joined of the coordinator's own to d
PeerJoinedEnqueued(d) ==
  /\ Len(send'[d]) = Len(send[d]) + 1
  /\ send'[d][Len(send'[d])] = [msg |-> PeerJoined, from |-> NoFrame]

\* C6: peer-joined is enqueued to both connections of an entry in the step
\* in which the entry reaches two connections, in no other step, and never
\* twice to one connection
C6_PeerJoinedOnPairing ==
  /\ [](\A d \in Conns : peerJoinedSent[d] <= 1)
  /\ [][\A d \in Conns :
          LET k == connCall'[d] IN
          IF k = NoCall THEN ~PeerJoinedEnqueued(d)
          ELSE PeerJoinedEnqueued(d) <=>
                 /\ Len(callConnections[k]) = 1
                 /\ Len(callConnections'[k]) = 2
                 /\ d \in Range(callConnections'[k])]_vars

\* both connections of a call hold the peer-joined of their pairing
C6_Witness ==
  \E c, d \in Conns :
    /\ c # d /\ InRegistry(c) /\ callConnections[connCall[c]] = <<c, d>>
    /\ send[c] = <<[msg |-> PeerJoined, from |-> NoFrame]>>
    /\ send[d] = <<[msg |-> PeerJoined, from |-> NoFrame]>>

\* C9: at most one call row of a conversation is not ended
C9_OneActiveCallPerConversation ==
  \A cv \in Conversations : Cardinality(GetActiveCallByConversation(cv)) <= 1

\* the step rejects start-call request r
StartRejected(r) ==
  /\ startReq[r].pc = "new"
  /\ startReq'[r].pc = "done"
  /\ startReq'[r].status \in {400, 403, 404, 409}

\* C10: a rejected start-call request leaves the tables and the registry
\* as they were
C10_RejectionChangesNothing ==
  [][\A r \in StartReqs :
       StartRejected(r) =>
         UNCHANGED <<lastMessageSeq, messages, calls, callConnections>>]_vars

\* a request was rejected because the conversation has an active call
C10_Witness ==
  \E r \in StartReqs : startReq[r].pc = "done" /\ startReq[r].status = 409

\* the step answers a call-status request
StatusAnswered == statusResp' # statusResp

MalformedRead(c) == closedBy[c] = "none" /\ closedBy'[c] = "malformed"

\* C12: a malformed frame read from connection c is dropped: the read loop
\* is back at its read with the transport open, and the step changes
\* neither the registry nor any send channel nor the calls table
C12_MalformedFrameDropped ==
  [][\A c \in Conns :
       MalformedRead(c) =>
         /\ connPc'[c] = "reading"
         /\ connOpen'[c]
         /\ UNCHANGED <<callConnections, send, sendClosed, calls>>]_vars

----------------------------------------------------------------------------
(* Properties of the relay authentication *)

\* the step is an authentication
Authenticated == relay'.last # relay.last

\* C13: an authentication accepts exactly when the realm is the configured
\* one, the username is the prefix followed by the text of a token that is
\* in the store and not past its expiry, and the lookup came back in time
\* without an error; a rejection returns no key
C13_AcceptsIffValid ==
  [][Authenticated =>
       LET r == relay'.last IN
       /\ r.ok <=>
            /\ r.realm = Realm
            /\ r.lookup = "ok"
            /\ \E t \in relay.rows :
                 /\ r.username = UsernamePrefix \o TokenText(t)
                 /\ relay.clock <= TokenExpiresAt(t)
       /\ ~r.ok => r.key = NoKey]_vars

\* a credential that was accepted is rejected because the lookup timed out
C13_Witness ==
  /\ ~relay.last.ok
  /\ relay.last.lookup = "timeout"
  /\ relay.last.realm = Realm
  /\ relay.last.username \in relay.accepted

\* C14: an authentication with the credential of a token that is deleted
\* from the store or past its expiry is rejected
C14_RevokedOrExpiredRejected ==
  [][Authenticated =>
       \A t \in Tokens :
         (/\ relay'.last.username = LoadIceServers(t).username
          /\ (t \notin relay.rows \/ relay.clock > TokenExpiresAt(t)))
         => ~relay'.last.ok]_vars

\* a credential that was accepted before is rejected, with the lookup in
\* time, after its token was deleted or has expired
C14_Witness ==
  /\ ~relay.last.ok
  /\ relay.last.lookup = "ok"
  /\ relay.last.realm = Realm
  /\ relay.last.username \in relay.accepted

----------------------------------------------------------------------------
(* Properties of the client's call session *)

\* the i-th event of the client's history is the sending of type t
Sent(i, t) == client.log[i].ev = "send" /\ client.log[i].type = t

\* the i-th event of the client's history is the receipt of type t
Received(i, t) == client.log[i].ev = "recv" /\ client.log[i].type = t

\* C7: the client sends no ice-candidate before it has received
\* peer-joined, and while it has not, its local candidates are all in the
\* pending-local buffer
C7_NoCandidateBeforePeerJoined ==
  /\ \A i \in 1..Len(client.log) :
       Sent(i, "ice-candidate") =>
         \E j \in 1..(i - 1) : Received(j, "peer-joined")
  /\ (\A j \in 1..Len(client.log) : ~Received(j, "peer-joined")) =>
       Len(client.pendingLocalCandidates) = client.generated

\* a candidate generated before peer-joined was received has been sent
\* after it
C7_Witness ==
  \E i, j, k \in 1..Len(client.log) :
    /\ i < j /\ j < k
    /\ client.log[i].ev = "candidate"
    /\ Received(j, "peer-joined")
    /\ Sent(k, "ice-candidate") /\ client.log[k].payload = client.log[i].payload

\* the step sends an offer
OfferSent ==
  \E i \in (Len(client.log) + 1)..Len(client'.log) :
    client'.log[i].ev = "send" /\ client'.log[i].type = "offer"

\* C8: an offer is sent only in a step that ends with the local ICE
\* gathering state complete
C8_OfferAfterGathering ==
  [][OfferSent => client'.iceGatheringState = "complete"]_vars

\* the initiator has sent its offer after having waited for the gathering
\* to go from new over gathering to complete
C8_Witness ==
  /\ client.isInitiator
  /\ \E i \in 1..Len(client.log) : Sent(i, "offer")
  /\ client.iceGatheringState = "complete"

\* the step starts a message handler or takes one further
HandlerStep ==
  \/ client'.received # client.received
  \/ client'.handlers # client.handlers

\* the step sends a signaling message
SendsMessage ==
  \E i \in (Len(client.log) + 1)..Len(client'.log) : client'.log[i].ev = "send"

\* C17: once endCall has run, a message handler that starts or goes on
\* changes neither the peer connection's descriptions and candidates nor
\* the candidate buffers, and sends nothing
C17_NothingProcessedAfterEnded ==
  [][(client.ended /\ HandlerStep) =>
       /\ client'.localDescription = client.localDescription
       /\ client'.remoteDescription = client.remoteDescription
       /\ client'.applied = client.applied
       /\ client'.pendingLocalCandidates = client.pendingLocalCandidates
       /\ client'.pendingRemoteCandidates = client.pendingRemoteCandidates
       /\ ~SendsMessage]_vars

\* the step delivers the close event of the call's socket
CloseEvent == client.ws \in {"open", "closing"} /\ client'.ws = "closed"

\* C18: a close event of the call's socket that arrives after endCall has
\* run changes nothing but the socket's own state: not the active call,
\* not the tracks, not the peer connection
C18_EndingIsIdempotent ==
  [][(client.ended /\ CloseEvent) =>
       /\ client'.activeCall = client.activeCall
       /\ client'.tracks = client.tracks
       /\ client'.pc = client.pc]_vars

\* C19: when endCall has run, no local track of the call is live, and
\* neither its peer connection nor its socket is open
C19_ReleasedWhenEnded ==
  client.ended =>
    /\ client.tracks # "live"
    /\ client.pc # "open"
    /\ client.ws \notin {"connecting", "open"}

\* C20: a remote candidate is applied only with a remote description set
\* and at most once, and once the remote description is set and no handler
\* is under way no candidate is left in the buffer
C20_RemoteCandidatesOnce ==
  /\ client.applied # <<>> => client.remoteDescription # "none"
  /\ \A i, j \in 1..Len(client.applied) :
       i # j => client.applied[i] # client.applied[j]
  /\ (client.remoteDescription # "none" /\ client.handlers = <<>>)
       => client.pendingRemoteCandidates = <<>>

\* the payloads of the ice-candidate messages sent so far, in the order of
\* their sending
RECURSIVE SentCandidates(_)
SentCandidates(log) ==
  IF log = <<>> THEN <<>>
  ELSE LET e == Head(log) IN
       (IF e.ev = "send" /\ e.type = "ice-candidate" THEN <<e.payload>>
        ELSE <<>>) \o SentCandidates(Tail(log))

----------------------------------------------------------------------------
(* Further properties of the coordinator *)

\* the call connection c was accepted for is ended
CallEnded(c) ==
  IF connCall[c] = NoCall THEN FALSE ELSE calls[connCall[c]].ended

\* C22: when the delivery loop of a registered connection has ended on a
\* write failure, then eventually the connection is out of the registry
\* and its call is ended
C22_WriteFailureTearsDown ==
  \A c \in PairConns :
    (writePc[c] = "failed" /\ InRegistry(c))
    ~> (~InRegistry(c) /\ CallEnded(c))

\* the handler of connection c gives the lock back
Unlock(c) == UnlockRegister(c) \/ RUnlockForward(c) \/ UnlockTeardown(c)

\* C23: the step in which a handler takes the lock and runs its critical
\* section, and the step in which it gives the lock back, touch no
\* transport and no table; between the two the handler takes no step; no
\* critical section waits for room in a channel, and the holder of the
\* lock can always give it back
C23_NoBlockingUnderLock ==
  /\ [][\A c \in PairConns :
          (Holds(c) # Holds(c)') =>
            UNCHANGED <<dbVars, connOpen, closedBy, written, sendClosed,
                        framesRead>>]_vars
  /\ [][\A c \in PairConns :
          (Holds(c) /\ Holds(c)') => connPc'[c] = connPc[c]]_vars
  /\ [](\A c \in PairConns :
          /\ (connPc[c] = "upgraded" /\ CanLock) => ENABLED LockRegister(c)
          /\ (connPc[c] = "forward" /\ CanRLock) => ENABLED RLockForward(c)
          /\ (connPc[c] = "teardown" /\ CanLock) => ENABLED LockTeardown(c)
          /\ Holds(c) => ENABLED Unlock(c))

\* a teardown holds the lock, the sibling it has collected is still open,
\* and the sibling's channel is full
C23_Witness ==
  \E c, d \in PairConns :
    /\ callMutex.writer = c /\ connPc[c] = "unregistered"
    /\ d \in others[c] /\ connOpen[d] /\ sendClosed[d] = 0
    /\ Len(send[d]) = SendCap

\* the step is connection c's registration (lines 258-273)
RegisterStep(c) == connPc[c] = "upgraded" /\ connPc'[c] = "reading"

\* C24: no channel is closed twice, and neither a forward nor the
\* peer-joined announcement of a registration offers a message to a
\* channel that has been closed
C24_NoSendOnClosedNoDoubleClose ==
  /\ [](\A d \in Conns : sendClosed[d] <= 1)
  /\ [][\A c \in Conns :
          /\ ForwardStep(c) => \A d \in ForwardTargets(c) : sendClosed[d] = 0
          /\ RegisterStep(c) => \A d \in Announced(c) : sendClosed[d] = 0]_vars

\* a teardown has closed the channel of a connection whose read loop is
\* about to forward a frame, while a third connection has registered
\* under the call anew
C24_Witness ==
  \E c, d, e \in TrioConns :
    /\ c # d /\ d # e /\ c # e
    /\ connPc[c] = "done" /\ sendClosed[d] = 1 /\ connPc[d] = "forward"
    /\ InRegistry(e) /\ connCall[e] = connCall[d]
    /\ connUser[e] # connUser[d]

\* C25: no connection is in the registry under the id of a call that has
\* been marked ended
C25_NoRegistrationUnderEndedCall ==
  \A k \in 1..Len(calls) : calls[k].ended => callConnections[k] = <<>>

\* the request of token t for message id m passes every check: the token
\* is stored and not expired, a call that is not ended is anchored at m,
\* and the token's user is a participant of that call's conversation
RequestValid(t, m) ==
  /\ t \in Tokens
  /\ ~TokenExpired(t)
  /\ \E k \in 1..Len(calls) :
       /\ calls[k].messageID = m
       /\ ~calls[k].deleted
       /\ TokenUser(t) \in GetConversationParticipants(calls[k].conversationID)

\* C26: a signaling request is accepted exactly when its token is stored
\* and unexpired, its call is not ended and its user is a participant; a
\* connection is upgraded only for such a user and such a call; a rejected
\* request opens no transport and leaves the registry as it is; every
\* connection in the registry is one that was upgraded, of a participant
\* with an unexpired token
C26_RegisteredAreValidated ==
  /\ [](\A t \in PresentedTokens, m \in 0..MaxStartReqs :
          SignalingRejection(t, m) = 0 <=> RequestValid(t, m))
  /\ [](\A c \in RegistryConns :
          InRegistry(c) =>
            /\ connPc[c] \notin {"new", "rejected", "upgraded"}
            /\ connUser[c] \in
                 GetConversationParticipants(calls[connCall[c]].conversationID)
            /\ \E t \in Tokens : TokenUser(t) = connUser[c] /\ ~TokenExpired(t))
  /\ [][\A c \in RegistryConns :
          /\ (connPc[c] = "new" /\ connPc'[c] = "upgraded") =>
               \E t \in Tokens :
                 /\ connUser'[c] = TokenUser(t)
                 /\ connCall'[c] \in 1..Len(calls)
                 /\ RequestValid(t, calls[connCall'[c]].messageID)
                 /\ UNCHANGED callConnections
          /\ (connPc[c] = "new" /\ connPc'[c] = "rejected") =>
               UNCHANGED <<callConnections, connOpen, connCall, send>>]_vars

\* one participant's connection is registered under a call that is not
\* ended, and a request for that call was rejected
C26_Witness ==
  \E c, d \in RegistryConns :
    /\ InRegistry(c) /\ ~calls[connCall[c]].deleted
    /\ connPc[d] = "rejected"

----------------------------------------------------------------------------
(* Properties of the calls table *)

\* the step marks call k ended
BecomesEnded(k) ==
  /\ calls'[k].ended
  /\ IF k <= Len(calls) THEN ~calls[k].ended ELSE TRUE

\* C27: a call is marked ended only in the last step of the teardown of a
\* connection that was accepted for this call and has been through its
\* registration; so an ended call has a connection whose teardown is done
\* and whose transport failed without the coordinator having closed it
C27_EndedOnlyByTeardown ==
  /\ [][\A k \in 1..Len(calls') :
          BecomesEnded(k) =>
            \E c \in PairConns :
              /\ connCall[c] = k
              /\ connPc[c] = "closing" /\ connPc'[c] = "done"]_vars
  /\ [](\A k \in 1..Len(calls) :
          calls[k].ended =>
            \E c \in PairConns :
              /\ connCall[c] = k /\ connPc[c] = "done"
              /\ closedBy[c] \in {"client", "malformed"})

\* one call is ended by the teardown of its connection while another call
\* with an open registered connection is still active
C27_Witness ==
  \E k, j \in 1..Len(calls) :
    /\ calls[k].ended /\ ~calls[j].ended
    /\ \E c \in PairConns : InRegistry(c) /\ connCall[c] = j /\ connOpen[c]

\* C28: no step removes a call row or changes a row's id, conversation or
\* anchor message, and no step clears the ended mark or the logical-delete
\* mark of a row
C28_CallRowsKept ==
  [][/\ Len(calls') >= Len(calls)
     /\ \A k \in 1..Len(calls) :
          /\ calls'[k].id = calls[k].id
          /\ calls'[k].conversationID = calls[k].conversationID
          /\ calls'[k].messageID = calls[k].messageID
          /\ calls[k].ended => calls'[k].ended
          /\ calls[k].deleted => calls'[k].deleted]_vars

\* a conversation's first call is ended and its row is kept, and the
\* conversation has a later call that is active
C28_Witness ==
  \E k, j \in 1..Len(calls) :
    /\ k < j /\ calls[k].conversationID = calls[j].conversationID
    /\ calls[k].ended /\ calls[k].deleted /\ endCallCount[k] > 0
    /\ ~calls[j].ended /\ ~calls[j].deleted

\* the call rows anchored at message m
CallsOfMessage(m) == {k \in 1..Len(calls) : calls[k].messageID = m}

\* C29: every call row is anchored at an existing message of its
\* conversation whose content type marks a call, and every such message
\* is the anchor of exactly one call row
C29_CallAndMessageTogether ==
  /\ \A k \in 1..Len(calls) :
       /\ calls[k].messageID \in 1..Len(messages)
       /\ messages[calls[k].messageID].contentType = "application/call"
       /\ messages[calls[k].messageID].conversationID = calls[k].conversationID
  /\ \A m \in 1..Len(messages) :
       messages[m].contentType = "application/call"
         => Cardinality(CallsOfMessage(m)) = 1

\* one start-call request has failed within its transaction and another
\* has created its message and its call
C29_Witness ==
  \E r, q \in StartReqs :
    /\ startReq[r].pc = "done" /\ startReq[r].status = 500
    /\ startReq[q].pc = "done" /\ startReq[q].status = 200
    /\ Len(calls) = 1 /\ Len(messages) = 1

----------------------------------------------------------------------------
(* The order of peer-joined and forwarded messages *)

\* C30: the registration that makes a pair enqueues peer-joined to both
\* connections as the first message of their channels, and a forward
\* offers its message only to a connection that peer-joined has been
\* enqueued to; so on every transport peer-joined is written ahead of
\* every forwarded frame
C30_PeerJoinedBeforeForwarded ==
  /\ [][\A c \in PairConns :
          (RegisterStep(c) /\ Len(callConnections'[connCall[c]]) = 2) =>
            \A d \in Range(callConnections'[connCall[c]]) :
              /\ send[d] = <<>> /\ written[d] = <<>>
              /\ PeerJoinedEnqueued(d)]_vars
  /\ [][\A c \in PairConns :
          ForwardStep(c) =>
            \A d \in ForwardTargets(c) : peerJoinedSent[d] = 1]_vars
  /\ [](\A d \in PairConns : \A i \in 1..Len(written[d]) :
          written[d][i].from # NoFrame =>
            (i > 1 /\ written[d][1].from = NoFrame))

\* peer-joined and then a forwarded frame have been written to a
\* connection's transport
C30_Witness ==
  \E d \in PairConns :
    /\ Len(written[d]) = 2
    /\ written[d][1].from = NoFrame
    /\ written[d][2].from \in Frames

----------------------------------------------------------------------------
(* C31 *)

\* the client frames behind the elements of a sequence of channel elements
\* or written messages, in their order
RECURSIVE FramesBehind(_)
FramesBehind(s) ==
  IF s = <<>> THEN <<>>
  ELSE IF Head(s).from = NoFrame THEN FramesBehind(Tail(s))
       ELSE <<Head(s).from>> \o FramesBehind(Tail(s))

\* s is t with some elements left out
RECURSIVE IsSubsequence(_, _)
IsSubsequence(s, t) ==
  IF s = <<>> THEN TRUE
  ELSE IF t = <<>> THEN FALSE
       ELSE IF Head(s) = Head(t) THEN IsSubsequence(Tail(s), Tail(t))
            ELSE IsSubsequence(s, Tail(t))

----------------------------------------------------------------------------
(* C32 *)

\* C32: when a connection's teardown has run to its end, or another
\* connection's teardown has closed its channel, then eventually its
\* delivery loop has ended
C32_DeliveryLoopsEnd ==
  \A c \in RegistryConns :
    (connPc[c] = "done" \/ sendClosed[c] > 0) ~> (writePc[c] # "running")

----------------------------------------------------------------------------
(* C33 *)

\* C33: a registration after which peer-joined has been put on a channel
\* leaves two connections of two different users in the entry of its call
C33_PeerJoinedForTwoUsers ==
  [][\A c \in PairConns :
       (/\ RegisterStep(c)
        /\ \E d \in PairConns : peerJoinedSent'[d] > peerJoinedSent[d])
       => Cardinality({connUser[d] :
                         d \in Range(callConnections'[connCall[c]])}) = 2]_vars

----------------------------------------------------------------------------
(* C34 *)

\* the number of events among the first n of the client's history that
\* satisfy Ev
CountEvents(n, Ev(_)) == Cardinality({i \in 1..n : Ev(i)})

SentOffer(i) == Sent(i, "offer")
SentAnswer(i) == Sent(i, "answer")
ReceivedOffer(i) == Received(i, "offer")
ReceivedPeerJoined(i) == Received(i, "peer-joined")

\* C34: an offer is sent only by the initiator and only after it has
\* received peer-joined, one offer at most for each peer-joined; an answer
\* is sent only after an offer has been received, one answer at most for
\* each received offer
C34_OfferByInitiatorOnly ==
  \A n \in 1..Len(client.log) :
    /\ SentOffer(n) => client.isInitiator
    /\ CountEvents(n, SentOffer) <= CountEvents(n, ReceivedPeerJoined)
    /\ CountEvents(n, SentAnswer) <= CountEvents(n, ReceivedOffer)

\* the client that is not the initiator has received peer-joined and then
\* an offer, and has sent its answer and no offer
C34_Witness ==
  /\ ~client.isInitiator
  /\ \E i, j, k \in 1..Len(client.log) :
       /\ i < j /\ j < k
       /\ ReceivedPeerJoined(i) /\ ReceivedOffer(j) /\ SentAnswer(k)
  /\ \A i \in 1..Len(client.log) : ~SentOffer(i)

----------------------------------------------------------------------------
(* C35 *)

\* the step sends an answer
AnswerSent ==
  \E i \in (Len(client.log) + 1)..Len(client'.log) :
    client'.log[i].ev = "send" /\ client'.log[i].type = "answer"

\* C35: an answer is sent only in a step that ends with a remote
\* description set and the local ICE gathering state complete
C35_AnswerAfterRemoteAndGathering ==
  [][AnswerSent =>
       /\ client'.remoteDescription # "none"
       /\ client'.iceGatheringState = "complete"]_vars

\* the client that is not the initiator has sent its answer, with the
\* offer as its remote description and its gathering complete
C35_Witness ==
  /\ ~client.isInitiator
  /\ \E i \in 1..Len(client.log) : SentAnswer(i)
  /\ client.remoteDescription = "offer"
  /\ client.localDescription = "answer"
  /\ client.iceGatheringState = "complete"

----------------------------------------------------------------------------
(* C36 *)

\* C36: a client with no handler in progress has sent one
\* renegotiate-answer for every renegotiate it has received
C36_EveryRenegotiateAnswered ==
  \A p \in Sides :
    peers[p].handlers = <<>> => peers[p].answers = peers[p].renegotiates

----------------------------------------------------------------------------
(* C37 *)

\* the step is the late end of the earlier call's initialization: startCall
\* or answerCall goes on after initializeCall
LateInitialization == client.init = "opening" /\ client'.init = "done"

\* C37: once the next call has been started, neither the close event of
\* the earlier call's socket nor the end of the earlier call's
\* initialization changes the active call: the next call is not ended and
\* its state is not filled with the earlier call's socket, peer connection
\* and streams
C37_EarlierCallLeavesLaterAlone ==
  [][(client.activeCall = "next" /\ (CloseEvent \/ LateInitialization))
       => client'.activeCall = "next"]_vars

----------------------------------------------------------------------------
(* C38 *)

\* C38: when a client whose token is in the token store and not expired
\* has asked the relay, under whatever configuration and with its ICE
\* servers from the configuration response or from the fallback, the
\* callback has accepted its username with the key the client has derived
C38_ClientKeyIsRelayKey ==
  relay.allocation.valid =>
    /\ relay.allocation.ok
    /\ relay.allocation.key = relay.allocation.clientKey

============================================================================
